---- MODULE Spec2Model ----
(***************************************************************************)
(* Verification model of MonoAI: agentic loops, the HTTP and WebSocket     *)
(* application and its rate limiter, Chat persistence, MultiModel fan-out, *)
(* the MCP client, the key manager, Config and prompt execution.  Each     *)
(* component has its own specification over its own variables; the         *)
(* variables of the other components stay at their initial values.         *)
(***************************************************************************)
EXTENDS Integers, Sequences, FiniteSets, Bags, TLC

\* ------------------------------------------------------------------ bounds
\* largest max_iter a loop is configured with
MaxIter == 2
\* model calls after which the exploration of one run stops
MaxCalls == 3
\* ceiling of the rate-limit rule
LimitValue == 2
\* length of the rate-limit window, in clock ticks
ResetPeriod == 1
\* last instant of the clock
MaxTime == 1
\* most tokens one response consumes
MaxTokens == 2
\* requests the server handles at the same time
MaxInFlight == 2
\* Chat.ask and Chat.ask_async calls made on the chat
MaxAsks == 2
\* fragments one completion stream delivers at most
MaxParts == 2
\* models a MultiModel is configured with at most
MaxModels == 3
\* connect calls made on one McpServer
MaxConnects == 2
\* prompts accepted on one WebSocket connection
MaxPrompts == 2
\* fragments the model streams for one prompt
MaxFragments == 2
\* messages without a usable prompt received on one WebSocket connection
MaxErrors == 1
\* load_key calls made in one process
MaxLoads == 3
\* lines of the key file
MaxLines == 2
\* reload calls made on the Config
MaxReloads == 2
\* steps of a PromptChain, items of an IterativePrompt
MaxSteps == 3
\* characters of a text given to _split_text
MaxText == 5
\* largest chunk_size
MaxChunk == 3
\* passes of the loop of _split_text explored
MaxPasses == 6
\* largest token count, of either sign, given to TokenCost.compute
MaxCount == 2

\* ------------------------------------------------------------------ helpers
Last(s) == s[Len(s)]

\* ================================================================ state
\* ---- agentic loop state
VARIABLES
    paradigm,        \* which loop class runs
    max_iter,        \* self._max_iter: {} for None, {n} for the cap n
    human_feedback,  \* self._human_feedback ("none" or "all")
    loop_pc,         \* "running", "returned" (start returned), "raised" (start raised)
    current_iter,    \* local current_iter of start
    messages,        \* local messages of start
    response,        \* local response dict of start: its keys and their values
    stopped_by_user, \* the loop printed "Execution stopped by user."
    trace            \* history: every model call and tool dispatch, in order

loopVars == <<paradigm, max_iter, human_feedback, loop_pc, current_iter, messages,
              response, stopped_by_user, trace>>

\* ---- Application state
VARIABLES
    rate_limiter,  \* self._rate_limiter: whether configured, and its Limit rule
    usage,         \* the rate limiter's per-user consumption and window start
    now,           \* the clock
    req,           \* the bag of requests whose handler is suspended at its await
    last           \* history: the last response sent and what the rate limiter did for it

appVars == <<rate_limiter, usage, now, req, last>>

\* ---- Chat state
VARIABLES
    history,     \* the history backend: the transcript stored for self.chat_id
    chat_init,   \* the transcript the session had when the Chat was constructed
    chat_built,  \* the constructor call: its arguments, outcome and side effects
    asked,       \* number of ask / ask_async calls started so far
    chat_calls   \* per call: the generator's position and locals, what it yielded
                 \* and what it passed to store

chatVars == <<history, chat_init, asked, chat_calls, chat_built>>

\* ---- MultiModel state
VARIABLES
    mm_variant,  \* which MultiModel: "coicoi" (coicoi/models) or "root" (multi_model.py)
    mm_models,   \* self._models, in configuration order
    mm_pc,       \* the fan-out call: "idle", "gathering", "returned", "raised"
    mm_tasks,    \* per task: "pending", "raised", or "done" with the value _task returned
    mm_order,    \* the order in which the underlying calls completed
    mm_result    \* what ask / ask_async returned

multiVars == <<mm_variant, mm_models, mm_pc, mm_tasks, mm_order, mm_result>>

\* ---- McpServer state
VARIABLES
    mcp_server,    \* the constructor's server_type and server_url
    mcp_session,   \* self._session: a session of `sessions`, 0 for None
    mcp_ctx,       \* self._ctx: a transport of `transports`, 0 for None
    mcp_reader,    \* self._reader: the transport the stream belongs to, 0 for None
    mcp_writer,    \* self._writer
    transports,    \* every transport context created: the connect that made it, its state
    sessions,      \* every ClientSession created: the connect that made it, its state
    mcp_outcomes,  \* how each connect call ended, in call order
    mcp_last,      \* the last operation called on the object and how it ended
    mcp_scope      \* the session_context scope: where its generator stands, the
                   \* connect call it made, how it was left

mcpVars == <<mcp_server, mcp_session, mcp_ctx, mcp_reader, mcp_writer,
             transports, sessions, mcp_outcomes, mcp_last, mcp_scope>>

\* ---- WebSocket connection state
VARIABLES
    ws_route,    \* "model_ws" or "agent_ws", and whether the agent named is configured
    ws_async,    \* whether ask / run returns an awaitable (the handler suspends in it)
    ws_pc,       \* the handler: "accepting", "receiving", "asking", "closed"
    ws_prompt,   \* number of prompts accepted so far on the connection
    ws_produced, \* fragments the model has produced for the current prompt
    ws_tasks,    \* the tasks ws_stream_handler created that have not run yet
    ws_frames    \* the frames sent on the socket, in order

wsVars == <<ws_route, ws_async, ws_pc, ws_prompt, ws_produced, ws_tasks, ws_frames>>

\* the key manager: the process environment, the cache of the singleton
\* (_KeyManager._keys), the key file on disk, how often it was opened, whether
\* google.colab is imported, and the last load_key call
VARIABLES
    environ,
    _keys,
    providers_keys,
    file_reads,
    colab,
    key_calls,
    key_last
keysVars == <<environ, _keys, providers_keys, file_reads, colab, key_calls, key_last>>

\* Config: the class attribute _DEFAULT_CONFIG (a dictionary object that
\* lives as long as the process), the instance's _config, the file
\* coiconf.yaml on disk, and the loads made so far
VARIABLES
    _DEFAULT_CONFIG,
    _config,
    coiconf,
    config_loads
configVars == <<_DEFAULT_CONFIG, _config, coiconf, config_loads>>

\* Model.ask / Model.ask_async: the prompt asked, which of the two was
\* called, the replies of the underlying agent, the inputs it was run on in
\* order, and the envelope returned
VARIABLES
    ex_prompt,
    ex_call,
    ex_replies,
    ex_runs,
    ex_result
execVars == <<ex_prompt, ex_call, ex_replies, ex_runs, ex_result>>

\* Application._get_user_identifier: the call made (request, body, validator)
\* and what it returned
VARIABLES
    ident_call,
    ident_result
identVars == <<ident_call, ident_result>>

\* DocumentsBuilder._split_text: the text and the configuration, the position
\* in the function, its locals start and chunks, and the passes made
VARIABLES
    split_input,
    split_pc,
    split_start,
    split_chunks,
    split_passes
splitVars == <<split_input, split_pc, split_start, split_chunks, split_passes>>

\* TokenCost.compute: the call (arguments and the state of token_pricing.json)
\* and how it ended
VARIABLES
    cost_call,
    cost_result
costVars == <<cost_call, cost_result>>

\* two clients of one configured model or agent: the route each uses, whether
\* ask / run awaits, each request's position, the streaming handler installed
\* on the shared object (0: none, else the client whose request installed it),
\* the fragments produced for each prompt, the send tasks created by
\* ws_stream_handler, and the frames each connection has received
VARIABLES
    rc_route,
    rc_async,
    rc_pc,
    _stream_callback,
    rc_produced,
    rc_tasks,
    rc_frames
raceVars == <<rc_route, rc_async, rc_pc, _stream_callback, rc_produced, rc_tasks, rc_frames>>

vars == <<loopVars, appVars, chatVars, multiVars, mcpVars, wsVars, keysVars, configVars, execVars, identVars, splitVars, costVars, raceVars>>

outsideLoop == <<appVars, chatVars, multiVars, mcpVars, wsVars, keysVars, configVars, execVars, identVars, splitVars, costVars, raceVars>>
outsideApp == <<loopVars, chatVars, multiVars, mcpVars, wsVars, keysVars, configVars, execVars, identVars, splitVars, costVars, raceVars>>
outsideChat == <<loopVars, appVars, multiVars, mcpVars, wsVars, keysVars, configVars, execVars, identVars, splitVars, costVars, raceVars>>
outsideMulti == <<loopVars, appVars, chatVars, mcpVars, wsVars, keysVars, configVars, execVars, identVars, splitVars, costVars, raceVars>>
outsideMcp == <<loopVars, appVars, chatVars, multiVars, wsVars, keysVars, configVars, execVars, identVars, splitVars, costVars, raceVars>>
outsideWs == <<loopVars, appVars, chatVars, multiVars, mcpVars, keysVars, configVars, execVars, identVars, splitVars, costVars, raceVars>>
outsideKeys == <<loopVars, appVars, chatVars, multiVars, mcpVars, wsVars, configVars, execVars, identVars, splitVars, costVars, raceVars>>
outsideConfig == <<loopVars, appVars, chatVars, multiVars, mcpVars, wsVars, keysVars, execVars, identVars, splitVars, costVars, raceVars>>
outsideExec == <<loopVars, appVars, chatVars, multiVars, mcpVars, wsVars, keysVars, configVars, identVars, splitVars, costVars, raceVars>>
outsideIdent == <<loopVars, appVars, chatVars, multiVars, mcpVars, wsVars, keysVars, configVars, execVars, splitVars, costVars, raceVars>>
outsideSplit == <<loopVars, appVars, chatVars, multiVars, mcpVars, wsVars, keysVars, configVars, execVars, identVars, costVars, raceVars>>
outsideCost == <<loopVars, appVars, chatVars, multiVars, mcpVars, wsVars, keysVars, configVars, execVars, identVars, splitVars, raceVars>>
outsideRace == <<loopVars, appVars, chatVars, multiVars, mcpVars, wsVars, keysVars, configVars, execVars, identVars, splitVars, costVars>>

\* ================================================================ agentic loops
\* The loops of monoai/agents/agentic_loop.py, and the loop of
\* monoai/agents/agentic_loops/_react_agentic_loop.py ("base_react").
OldParadigms == {"react", "programmatic", "plan_and_execute", "reflexion",
                 "self_ask", "self_ask_with_search"}
Paradigms == OldParadigms \cup {"base_react", "function_calling"}

\* What the provider can put in resp["content"]:
\*   none        content is None
\*   text        text that is not JSON
\*   thought     a JSON step with none of final_answer, action, search_query
\*   action      a JSON step whose action names a registered tool
\*   action_null a JSON step whose action has name null
\*   search      a JSON step with a search_query
\*   final42     a JSON step with final_answer "42"
\*   final7act   a JSON step with final_answer "7" and an action as well
Contents == {"none", "text", "thought", "action", "action_null", "search",
             "final42", "final7act"}

\* json.loads(content) succeeds
Parses(c) == c \notin {"none", "text"}

\* key in iteration
HasKey(c, key) ==
    CASE key = "final_answer" -> c \in {"final42", "final7act"}
      [] key = "action"       -> c \in {"action", "action_null", "final7act"}
      [] key = "search_query" -> c = "search"
      [] OTHER                -> FALSE

\* iteration["final_answer"]
FinalAnswer(c) == IF c = "final42" THEN "42" ELSE "7"

\* iteration["action"]["name"] is not None
ActionNamed(c) == c \in {"action", "final7act"}

\* one entry of response["iterations"]
Iteration(c, obs) == [content |-> c, observation |-> obs]

Msg(role, content) == [role |-> role, content |-> content]

ModelEvent(c) == [ev |-> "model", content |-> c]
ToolEvent(c)  == [ev |-> "tool", content |-> c]

\* number of model calls made so far
Calls == Cardinality({i \in 1..Len(trace) : trace[i].ev = "model"})

\* while True: if self._max_iter is not None and current_iter >= self._max_iter: break
CapReached == \E n \in max_iter : current_iter >= n

\* response = {"prompt": query, "iterations": []}; the reflexion and self-ask
\* loops start from {"iterations": []}
InitialResponse(p) ==
    [keys |-> IF p \in {"reflexion", "self_ask", "self_ask_with_search"}
              THEN {"iterations"} ELSE {"prompt", "iterations"},
     iterations |-> <<>>,
     response |-> ""]

WithFinal(c) ==
    [response EXCEPT !.keys = @ \cup {"response"},
                     !.iterations = Append(@, Iteration(c, "none")),
                     !.response = FinalAnswer(c)]

WithIteration(c, obs) ==
    [response EXCEPT !.iterations = Append(@, Iteration(c, obs))]

\* ---- the ways one pass of the while loop ends
\* json.loads or the tool registry lookup raised: start raises
Raises(c, evs) ==
    /\ loop_pc' = "raised"
    /\ messages' = Append(messages, Msg("assistant", c))
    /\ trace' = trace \o evs
    /\ UNCHANGED <<current_iter, response, stopped_by_user>>

\* (mutation) the final answer is recorded but the break is missing
BreaksForgotten(c) ==
    /\ loop_pc' = "running"
    /\ messages' = Append(messages, Msg("assistant", c))
    /\ response' = WithFinal(c)
    /\ current_iter' = current_iter + 1
    /\ trace' = Append(trace, ModelEvent(c))
    /\ UNCHANGED stopped_by_user

\* break on a final answer, then return response
Breaks(c) ==
    /\ loop_pc' = "returned"
    /\ messages' = Append(messages, Msg("assistant", c))
    /\ response' = WithFinal(c)
    /\ trace' = Append(trace, ModelEvent(c))
    /\ UNCHANGED <<current_iter, stopped_by_user>>

\* the pass ends at current_iter += 1
Continues(c, newMsgs, resp, evs) ==
    /\ loop_pc' = "running"
    /\ messages' = Append(messages, Msg("assistant", c)) \o newMsgs
    /\ response' = resp
    /\ current_iter' = current_iter + 1
    /\ trace' = trace \o evs
    /\ UNCHANGED stopped_by_user

\* the tool call of an action step: observation recorded and sent back
Dispatches(c) ==
    Continues(c, <<Msg("user", "observation")>>, WithIteration(c, "tool_result"),
              <<ModelEvent(c), ToolEvent(c)>>)

CanStep(p) ==
    /\ paradigm = p
    /\ loop_pc = "running"
    /\ ~CapReached
    /\ Calls < MaxCalls
    /\ UNCHANGED <<paradigm, max_iter, human_feedback>>
    /\ UNCHANGED outsideLoop

\* ---- ReactAgenticLoop.start, one pass of the loop
ReactPass(c) ==
    IF c = "none" THEN Continues(c, <<>>, response, <<ModelEvent(c)>>)
    ELSE IF ~Parses(c) THEN Raises(c, <<ModelEvent(c)>>)
    ELSE IF HasKey(c, "final_answer") THEN Breaks(c)
    ELSE IF HasKey(c, "action") THEN
        \* self._available_tools[None] raises before any tool runs
        IF ActionNamed(c) THEN Dispatches(c)
        ELSE Raises(c, <<ModelEvent(c)>>)
    ELSE Continues(c, <<>>, response, <<ModelEvent(c)>>)

ReactStart == CanStep("react") /\ \E c \in Contents : ReactPass(c)

\* ---- ProgrammaticAgenticLoop.start and PlanAndExecuteAgenticLoop.start
ProgrammaticPass(c) ==
    IF c = "none" THEN Continues(c, <<>>, response, <<ModelEvent(c)>>)
    ELSE IF ~Parses(c) THEN Raises(c, <<ModelEvent(c)>>)
    ELSE IF HasKey(c, "final_answer") THEN Breaks(c)
    ELSE IF HasKey(c, "action") /\ ActionNamed(c) THEN Dispatches(c)
    ELSE Continues(c, <<Msg("user", c)>>, response, <<ModelEvent(c)>>)

ProgrammaticStart == CanStep("programmatic") /\ \E c \in Contents : ProgrammaticPass(c)

PlanAndExecutePass(c) == ProgrammaticPass(c)

PlanAndExecuteStart ==
    CanStep("plan_and_execute") /\ \E c \in Contents : PlanAndExecutePass(c)

\* ---- ReflexionAgenticLoop.start
ReflexionPass(c) ==
    IF c = "none" THEN Continues(c, <<>>, response, <<ModelEvent(c)>>)
    ELSE IF ~Parses(c) THEN Raises(c, <<ModelEvent(c)>>)
    ELSE IF HasKey(c, "final_answer") THEN Breaks(c)
    ELSE IF HasKey(c, "action") THEN
        \* self._available_tools[None] raises before any tool runs
        IF ActionNamed(c) THEN Dispatches(c)
        ELSE Raises(c, <<ModelEvent(c)>>)
    ELSE Continues(c, <<Msg("user", c)>>, WithIteration(c, "none"), <<ModelEvent(c)>>)

ReflexionStart == CanStep("reflexion") /\ \E c \in Contents : ReflexionPass(c)

\* ---- SelfAskAgenticLoop.start
SelfAskPass(c) ==
    IF c = "none" THEN Continues(c, <<>>, response, <<ModelEvent(c)>>)
    ELSE IF ~Parses(c) THEN Raises(c, <<ModelEvent(c)>>)
    ELSE IF HasKey(c, "final_answer") THEN Breaks(c)
    ELSE Continues(c, <<Msg("user", c)>>, WithIteration(c, "none"), <<ModelEvent(c)>>)

SelfAskStart == CanStep("self_ask") /\ \E c \in Contents : SelfAskPass(c)

\* ---- SelfAskWithSearchLoop.start
SelfAskWithSearchPass(c) ==
    IF c = "none" THEN Continues(c, <<>>, response, <<ModelEvent(c)>>)
    ELSE IF ~Parses(c) THEN Raises(c, <<ModelEvent(c)>>)
    ELSE IF HasKey(c, "final_answer") THEN Breaks(c)
    ELSE IF HasKey(c, "search_query") THEN
        Continues(c, <<Msg("user", "query_results")>>,
                  WithIteration(c, "search_result"), <<ModelEvent(c), ToolEvent(c)>>)
    ELSE Continues(c, <<Msg("user", c)>>, WithIteration(c, "none"), <<ModelEvent(c)>>)

SelfAskWithSearchStart ==
    CanStep("self_ask_with_search") /\ \E c \in Contents : SelfAskWithSearchPass(c)

\* ---- _BaseReactLoop._run_react_loop (ReactAgenticLoop of _react_agentic_loop.py)
\* self._parse_step_format(content): the parsed step, or nothing when the
\* content is not a structured step
ParseStepFormat(c) == Parses(c)

\* self._handle_final_answer(iteration, response): on a final answer records the
\* step and the answer in the response and returns True
HandleFinalAnswer(c) == HasKey(c, "final_answer")

\* self._handle_tool_action(iteration, response, messages): dispatches the tool,
\* records the step with its observation and sends the observation back
HandleToolAction(c) ==
    /\ loop_pc' = "running"
    /\ messages' = Append(messages, Msg("assistant", c)) \o <<Msg("user", "observation")>>
    /\ response' = WithIteration(c, "tool_result")
    /\ trace' = trace \o <<ModelEvent(c), ToolEvent(c)>>

\* self._handle_default(iteration, response, messages): records the step and
\* re-injects it as a user turn
HandleDefault(c) ==
    Continues(c, <<Msg("user", c)>>, WithIteration(c, "none"), <<ModelEvent(c)>>)

\* iteration["step_type"] == "action"
StepTypeIsAction(c) == c = "action"

\* the step formats the structured-step loop is given
BaseContents == Contents \ {"action_null"}

BaseReactPass(c, approved) ==
    IF c = "none" THEN Continues(c, <<>>, response, <<ModelEvent(c)>>)
    ELSE IF ~ParseStepFormat(c) THEN
        Continues(c, <<Msg("user", c)>>, response, <<ModelEvent(c)>>)
    ELSE IF human_feedback = "all" /\ ~approved THEN
        \* print("Execution stopped by user."); break
        /\ loop_pc' = "returned"
        /\ stopped_by_user' = TRUE
        /\ messages' = Append(messages, Msg("assistant", c))
        /\ trace' = Append(trace, ModelEvent(c))
        /\ UNCHANGED <<current_iter, response>>
    ELSE IF HandleFinalAnswer(c) THEN Breaks(c)
    ELSE IF StepTypeIsAction(c) THEN
        \* continue: the pass ends without current_iter += 1
        /\ HandleToolAction(c)
        /\ UNCHANGED <<current_iter, stopped_by_user>>
    ELSE HandleDefault(c)

RunReactLoop ==
    /\ CanStep("base_react")
    /\ \E c \in BaseContents, approved \in BOOLEAN : BaseReactPass(c, approved)

\* ---- FunctionCallingAgenticLoop.start, one pass of its `while True`, which
\* has no cap check.  The provider answers with text (content), with tool
\* calls and no content, or with neither.
FunctionCallingPass(c) ==
    IF c = "text" THEN
        \* response["response"] = content; break
        /\ loop_pc' = "returned"
        /\ messages' = Append(messages, Msg("assistant", c))
        /\ response' = [response EXCEPT !.keys = @ \cup {"response"}, !.response = c]
        /\ trace' = Append(trace, ModelEvent(c))
        /\ UNCHANGED <<current_iter, stopped_by_user>>
    ELSE IF c = "tool_calls" THEN
        /\ loop_pc' = "running"
        /\ messages' = Append(messages, Msg("assistant", c)) \o <<Msg("tool", "tool_result")>>
        /\ response' = WithIteration(c, "tool_result")
        /\ trace' = trace \o <<ModelEvent(c), ToolEvent(c)>>
        /\ UNCHANGED <<current_iter, stopped_by_user>>
    ELSE
        /\ loop_pc' = "running"
        /\ messages' = Append(messages, Msg("assistant", c))
        /\ trace' = Append(trace, ModelEvent(c))
        /\ UNCHANGED <<current_iter, response, stopped_by_user>>

FunctionCallingStart ==
    /\ paradigm = "function_calling"
    /\ loop_pc = "running"
    /\ Calls < MaxCalls
    /\ \E c \in {"text", "tool_calls", "none"} : FunctionCallingPass(c)
    /\ UNCHANGED <<paradigm, max_iter, human_feedback>>
    /\ UNCHANGED outsideLoop

\* ---- the cap check at the top of the loop: break, return response
LoopCapReturn ==
    /\ paradigm # "function_calling"
    /\ loop_pc = "running"
    /\ CapReached
    /\ loop_pc' = "returned"
    /\ UNCHANGED <<paradigm, max_iter, human_feedback, current_iter, messages,
                   response, stopped_by_user, trace>>
    /\ UNCHANGED outsideLoop

LoopConfigs ==
    {cfg \in [paradigm : Paradigms,
              max_iter : {{}} \cup {{n} : n \in 0..MaxIter},
              human_feedback : {"none", "all"}] :
        cfg.human_feedback = "all" => cfg.paradigm = "base_react"}

LoopInit ==
    \E cfg \in LoopConfigs :
        /\ paradigm = cfg.paradigm
        /\ max_iter = cfg.max_iter
        /\ human_feedback = cfg.human_feedback
        /\ loop_pc = "running"
        /\ current_iter = 0
        /\ messages = <<Msg("user", "prompt")>>
        /\ response = InitialResponse(cfg.paradigm)
        /\ stopped_by_user = FALSE
        /\ trace = <<>>

LoopNext ==
    \/ ReactStart
    \/ ProgrammaticStart
    \/ PlanAndExecuteStart
    \/ ReflexionStart
    \/ SelfAskStart
    \/ SelfAskWithSearchStart
    \/ RunReactLoop
    \/ FunctionCallingStart
    \/ LoopCapReturn


\* ---------------------------------------------------------------- loop claims
\* positions of the trace at which the provider emitted a final_answer
FinalSteps ==
    {i \in 1..Len(trace) :
        trace[i].ev = "model" /\ HasKey(trace[i].content, "final_answer")}

\* C1: with max_iter = N and a provider that never emits a final_answer, start
\* makes no more than N model calls and, once it has ended, it has returned
\* after exactly N model calls with no "response" key in the record.
C1_IterationCapExact ==
    \A n \in max_iter :
        (paradigm # "function_calling" /\ FinalSteps = {}) =>
            /\ Calls <= n
            /\ loop_pc # "running" =>
                  /\ loop_pc = "returned"
                  /\ Calls = n
                  /\ "response" \notin response.keys

\* C2 as stated: once the provider's k-th step is the first with a final_answer,
\* the loop has stopped after exactly k model calls, nothing was called or
\* dispatched after that step, the record's response is that final_answer and
\* the step is the last entry of the iteration log.
C2_FinalAnswerStopsAlways ==
    \A k \in FinalSteps :
        /\ k = Len(trace)
        /\ loop_pc = "returned"
        /\ "response" \in response.keys
        /\ response.response = FinalAnswer(trace[k].content)
        /\ Len(response.iterations) > 0
        /\ Last(response.iterations).content = trace[k].content

\* C2 amended: the same, except that when human feedback is required for all
\* steps and the human declines the final step the loop still stops there with
\* no further call or dispatch, but the record has no response.
C2_FinalAnswerStops ==
    \A k \in FinalSteps :
        /\ k = Len(trace)
        /\ loop_pc = "returned"
        /\ IF stopped_by_user
           THEN "response" \notin response.keys
           ELSE /\ "response" \in response.keys
                /\ response.response = FinalAnswer(trace[k].content)
                /\ Len(response.iterations) > 0
                /\ Last(response.iterations).content = trace[k].content

\* a final answer reached at the second model call or later, after a tool dispatch
C2_Witness ==
    /\ FinalSteps # {}
    /\ Calls >= 2
    /\ \E i \in 1..Len(trace) : trace[i].ev = "tool"
    /\ response.response = "7"
    /\ loop_pc = "returned"

\* C22: every paradigm honours the cap, the function-calling one too: with
\* max_iter = N its start makes at most N model calls, also when the provider
\* keeps answering with tool calls or with neither content nor tool calls.
C22_FunctionCallingCapped ==
    paradigm = "function_calling" => \A n \in max_iter : Calls <= n

\* C23: in every structured-step loop a model step whose content is not JSON
\* is not fatal: start does not raise, the text goes back into the
\* conversation as a user turn, the step counts as one iteration and the loop
\* goes on.
C23_UnparseableStepReinjected ==
    [][(paradigm # "function_calling" /\ Len(trace') = Len(trace) + 1
          /\ Last(trace') = ModelEvent("text")) =>
            /\ loop_pc' = "running"
            /\ Last(messages') = Msg("user", "text")
            /\ current_iter' = current_iter + 1]_vars

\* C24: for every paradigm, however the loop ended (final answer or cap), the
\* record start returned holds the original prompt and an iteration log whose
\* entries are in the order the steps were produced, and it holds the final
\* answer text exactly when a final-answer step was reached.
C24_RecordContents ==
    loop_pc = "returned" =>
        /\ "prompt" \in response.keys
        /\ \E f \in [1..Len(response.iterations) -> 1..Len(trace)] :
              /\ \A i \in 1..Len(response.iterations) :
                    trace[f[i]] = ModelEvent(response.iterations[i].content)
              /\ \A i, j \in 1..Len(response.iterations) : i < j => f[i] < f[j]
        /\ "response" \in response.keys <=>
              (FinalSteps # {} \/ \E i \in 1..Len(trace) : trace[i] = ModelEvent("text"))

\* ================================================================ Application
Users == {"alice", "ip:10.0.0.1"}
HttpRoutes == {"model", "agent", "model_stream", "agent_stream"}
WsRoutes == {"model_ws", "agent_ws"}
AgentRoutes == {"agent", "agent_stream", "agent_ws"}
\* the request body: not JSON, JSON without a (non-empty) prompt, JSON with a
\* prompt; and JSON that is not an object (a non-empty array, a string, a number)
Bodies == {"badjson", "noprompt", "ok", "nonobject"}

\* ---- RateLimiter / Limit
\* Limit(unit, value, reset_unit, reset_value)
Limits == {[unit |-> u, value |-> LimitValue, period |-> ResetPeriod] :
              u \in {"request", "token"}}

NoUsage == [started |-> FALSE, consumed |-> 0, window_start |-> 0]

\* consumption a response is measured at: a flat 1 for request rules, the
\* response's token usage for token rules
Measure(tokens) == IF rate_limiter.unit = "request" THEN 1 ELSE tokens

\* the window is still open while now < window_start + reset period
WindowOpen(u) ==
    usage[u].started /\ now < usage[u].window_start + rate_limiter.period

\* consumption counted in the current window: zero once the window has elapsed
Consumed(u) == IF WindowOpen(u) THEN usage[u].consumed ELSE 0

\* RateLimiter.check_with_response(user_id, response)
check_with_response(u, tokens) == Consumed(u) + Measure(tokens) <= rate_limiter.value

\* RateLimiter.update_with_response(user_id, response): the usage afterwards
update_with_response(u, tokens) ==
    [usage EXCEPT ![u] =
        IF WindowOpen(u)
        THEN [@ EXCEPT !.consumed = @ + Measure(tokens)]
        ELSE [started |-> TRUE, consumed |-> Measure(tokens), window_start |-> now]]

\* ---- the responses
\* a request the handlers find nothing wrong with
NoRequest == [known |-> TRUE, body |-> "ok"]

Sent(status, checked, updated, restarted) ==
    [status |-> status, checked |-> checked, updated |-> updated,
     restarted |-> restarted, request |-> NoRequest]

\* what the handlers answer before calling the model or agent (0: nothing):
\* the agent lookup comes first, then request.json(), then
\* (data or {}).get("prompt"), which raises on a body that is not an object
Rejection(route, known, body) ==
    IF route \in AgentRoutes /\ ~known THEN 404
    ELSE IF body = "badjson" THEN 400
    ELSE IF body = "nonobject" THEN 500
    ELSE IF body = "noprompt" THEN 400
    ELSE 0

NothingSent == Sent(0, "none", FALSE, FALSE)

\* the code that resumes after the await: the four HTTP handlers continue with
\* the same check-then-update, the two WebSocket handlers with the same send
Resumes(route) == IF route \in WsRoutes THEN "websocket" ELSE "http"

\* a request whose handler is suspended at `await self._maybe_await(...)`
Awaiting(route, u) == [pc |-> "awaiting", route |-> Resumes(route), user |-> u]

\* ---- the handlers up to their await of the model or agent
\* request.json(), the prompt check, the agent lookup, _get_user_identifier
Begin(route) ==
    /\ BagCardinality(req) < MaxInFlight
    /\ \/ \* the request is answered without calling the model or agent
          /\ \E known \in {TRUE, route \notin AgentRoutes}, body \in Bodies :
                /\ ~known => body = "ok"
                /\ Rejection(route, known, body) # 0
                /\ last' = [Sent(Rejection(route, known, body), "none", FALSE, FALSE)
                               EXCEPT !.request = [known |-> known, body |-> body]]
          /\ UNCHANGED req
       \/ \* the model or agent is called for the identified user
          /\ Rejection(route, TRUE, "ok") = 0
          /\ \E u \in Users : req' = req (+) SetToBag({Awaiting(route, u)})
          /\ UNCHANGED last
    /\ UNCHANGED <<rate_limiter, usage, now>>
    /\ UNCHANGED outsideApp

\* (mutation) the consumption of an accepted response is never recorded
FinishWithoutUpdate(route) ==
    /\ \E e \in BagToSet(req) :
        /\ e = Awaiting(route, e.user)
        /\ req' = req (-) SetToBag({e})
        /\ \/ last' = Sent(500, "none", FALSE, FALSE)
           \/ \E tokens \in 1..MaxTokens :
                IF ~rate_limiter.configured
                THEN last' = Sent(200, "none", FALSE, FALSE)
                ELSE IF ~check_with_response(e.user, tokens)
                THEN last' = Sent(429, "fail", FALSE, FALSE)
                ELSE last' = Sent(200, "pass", TRUE, FALSE)
    /\ UNCHANGED <<rate_limiter, now, usage>>
    /\ UNCHANGED outsideApp

\* (mutation) the consumption is recorded before the check decides
FinishUpdatesFirst(route) ==
    /\ \E e \in BagToSet(req) :
        /\ e = Awaiting(route, e.user)
        /\ req' = req (-) SetToBag({e})
        /\ \/ /\ last' = Sent(500, "none", FALSE, FALSE)
              /\ UNCHANGED usage
           \/ \E tokens \in 1..MaxTokens :
                IF ~rate_limiter.configured
                THEN /\ last' = Sent(200, "none", FALSE, FALSE)
                     /\ UNCHANGED usage
                ELSE /\ usage' = update_with_response(e.user, tokens)
                     /\ IF ~check_with_response(e.user, tokens)
                        THEN last' = Sent(429, "fail", FALSE, FALSE)
                        ELSE last' = Sent(200, "pass", TRUE, FALSE)
    /\ UNCHANGED <<rate_limiter, now>>
    /\ UNCHANGED outsideApp

\* (mutation) the handler is suspended between its check and its update
FinishRacy(route) ==
    /\ \E e \in BagToSet(req) :
        /\ e.route = Resumes(route)
        /\ \E tokens \in 1..MaxTokens :
            \/ /\ e.pc = "awaiting"
               /\ rate_limiter.configured
               /\ IF check_with_response(e.user, tokens)
                  THEN /\ req' = (req (-) SetToBag({e}))
                                    (+) SetToBag({[e EXCEPT !.pc = "checked"]})
                       /\ UNCHANGED last
                  ELSE /\ req' = req (-) SetToBag({e})
                       /\ last' = Sent(429, "fail", FALSE, FALSE)
               /\ UNCHANGED usage
            \/ /\ e.pc = "checked"
               /\ req' = req (-) SetToBag({e})
               /\ usage' = update_with_response(e.user, tokens)
               /\ last' = Sent(200, "pass", TRUE, FALSE)
    /\ UNCHANGED <<rate_limiter, now>>
    /\ UNCHANGED outsideApp

\* ---- the rate-limited handlers after the await: check, 429 or update, return
Finish(route) ==
    /\ \E e \in BagToSet(req) :
        /\ e = Awaiting(route, e.user)
        /\ req' = req (-) SetToBag({e})
        /\ \/ \* the model or agent raised
              /\ last' = Sent(500, "none", FALSE, FALSE)
              /\ UNCHANGED usage
           \/ \E tokens \in 1..MaxTokens :
                IF ~rate_limiter.configured
                THEN /\ last' = Sent(200, "none", FALSE, FALSE)
                     /\ UNCHANGED usage
                ELSE IF ~check_with_response(e.user, tokens)
                THEN /\ last' = Sent(429, "fail", FALSE, FALSE)
                     /\ UNCHANGED usage
                ELSE /\ usage' = update_with_response(e.user, tokens)
                     /\ last' = Sent(200, "pass", TRUE,
                                     usage[e.user].started /\ ~WindowOpen(e.user))
    /\ UNCHANGED <<rate_limiter, now>>
    /\ UNCHANGED outsideApp

\* ---- the WebSocket handlers after the await: the complete frame is sent
WsFinish(route) ==
    /\ \E e \in BagToSet(req) :
        /\ e = Awaiting(route, e.user)
        /\ req' = req (-) SetToBag({e})
        /\ \/ last' = Sent(500, "none", FALSE, FALSE)
           \/ last' = Sent(200, "none", FALSE, FALSE)
    /\ UNCHANGED <<rate_limiter, usage, now>>
    /\ UNCHANGED outsideApp

model_route_begin == Begin("model")
model_route == Finish("model")
agent_route_begin == Begin("agent")
agent_route == Finish("agent")
model_stream_route_begin == Begin("model_stream")
model_stream_route == Finish("model_stream")
agent_stream_route_begin == Begin("agent_stream")
agent_stream_route == Finish("agent_stream")
model_websocket_begin == Begin("model_ws")
model_websocket == WsFinish("model_ws")
agent_websocket_begin == Begin("agent_ws")
agent_websocket == WsFinish("agent_ws")

\* time passes
Tick ==
    /\ now < MaxTime
    /\ now' = now + 1
    /\ UNCHANGED <<rate_limiter, usage, req, last>>
    /\ UNCHANGED outsideApp

AppInit ==
    /\ rate_limiter \in {[configured |-> c, unit |-> l.unit, value |-> l.value,
                          period |-> l.period] : c \in BOOLEAN, l \in Limits}
    /\ ~rate_limiter.configured => rate_limiter.unit = "request"
    /\ usage = [u \in Users |-> NoUsage]
    /\ now = 0
    /\ req = EmptyBag
    /\ last = NothingSent

AppNext ==
    \/ model_route_begin
    \/ model_route
    \/ agent_route_begin
    \/ agent_route
    \/ model_stream_route_begin
    \/ model_stream_route
    \/ agent_stream_route_begin
    \/ agent_stream_route
    \/ model_websocket_begin
    \/ model_websocket
    \/ agent_websocket_begin
    \/ agent_websocket
    \/ Tick

\* ---------------------------------------------------------------- application claims
\* the step in which the handler of request e resumes and sends its response
Responds(e) == e \in BagToSet(req) /\ req' = req (-) SetToBag({e})

RequestLimited == rate_limiter.configured /\ rate_limiter.unit = "request"

\* C3: under a request-unit Limit with ceiling V and window W, a request answered
\* on a rate-limited route is accepted and counted while fewer than V requests
\* of its user were accepted in the still-open window, rejected (usage untouched)
\* once V were, and accepted with the consumption reset and the window
\* restarted at now once W has elapsed from the window start.
C3_RequestWindow ==
    [][\A e \in BagToSet(req) :
        (/\ Responds(e)
         /\ RequestLimited
         /\ e.route = "http"
         /\ last'.status \in {200, 429}) =>
            LET u == e.user
                open == usage[u].started /\ now < usage[u].window_start + ResetPeriod
            IN  IF open /\ usage[u].consumed >= LimitValue
                THEN last'.status = 429 /\ usage' = usage
                ELSE IF open
                THEN /\ last'.status = 200
                     /\ usage'[u] = [usage[u] EXCEPT !.consumed = @ + 1]
                ELSE /\ last'.status = 200
                     /\ usage'[u] = [started |-> TRUE, consumed |-> 1,
                                     window_start |-> now]]_vars

\* a request accepted after its user's full window has elapsed
C3_Witness ==
    /\ RequestLimited
    /\ last.status = 200
    /\ last.restarted
    /\ \E u \in Users : usage[u].consumed = 1 /\ usage[u].window_start = now
    /\ now >= ResetPeriod

\* C4: on a rate-limited route the consumption is recorded exactly when the
\* check passed, for the user and response that were checked, and a request
\* rejected with 429 leaves every user's usage as it was.
C4_UpdateIffCheckPassed ==
    [][\A e \in BagToSet(req) :
        (Responds(e) /\ rate_limiter.configured /\ e.route = "http") =>
            /\ last'.updated <=> last'.checked = "pass"
            /\ last'.status = 429 <=> last'.checked = "fail"
            /\ last'.status = 429 => usage' = usage
            /\ ~last'.updated => usage' = usage
            /\ last'.updated =>
                  \E tokens \in 1..MaxTokens :
                      /\ check_with_response(e.user, tokens)
                      /\ usage' = update_with_response(e.user, tokens)]_vars

\* a request rejected with 429 while its user's window holds the full ceiling
C4_Witness ==
    /\ rate_limiter.configured
    /\ last.status = 429
    /\ last.checked = "fail"
    /\ \E u \in Users : WindowOpen(u) /\ usage[u].consumed = rate_limiter.value

\* C5: whatever the interleaving of the requests in flight, the consumption
\* recorded for the rule within one window never exceeds the rule's ceiling
\* (each update is applied on the usage its own check has just read).
C5_CeilingNeverExceeded ==
    \A u \in Users : usage[u].consumed <= rate_limiter.value

\* two requests of one user were in flight together; one has been answered and
\* its user stands at the ceiling while the other still waits for its model
C5_Witness ==
    /\ rate_limiter.configured
    /\ last.status = 200
    /\ last.updated
    /\ \E e \in BagToSet(req) :
          /\ e.route = "http"
          /\ WindowOpen(e.user)
          /\ usage[e.user].consumed = rate_limiter.value

\* C6: with a rate limiter configured, a result delivered by any prompt-bearing
\* route has passed check_with_response and had its consumption recorded.
C6_DeliveredOnlyAfterCheck ==
    (rate_limiter.configured /\ last.status = 200) =>
        (last.checked = "pass" /\ last.updated)

\* C13: a request with a body that is not JSON, with no (or an empty) prompt,
\* or for an agent the application does not have is answered 400 (404 for the
\* unknown agent) with no call of the model or agent and none of the rate limiter.
C13_BadRequestRejected ==
    [][(last' # last /\ last'.request # NoRequest) =>
          /\ last'.status = IF last'.request.known THEN 400 ELSE 404
          /\ req' = req
          /\ usage' = usage
          /\ last'.checked = "none" /\ ~last'.updated]_vars

\* ================================================================ Chat
Asks == 1..MaxAsks

Turn(role, content) == [role |-> role, content |-> content]

\* the prompt of the n-th call
Prompt(n) == <<"q", ToString(n)>>

\* what a stream's k-th delta carries: None, or the k-th piece of the answer
Letters == <<"a", "b", "c", "d">>
Deltas(k) == {"None", Letters[k]}

\* part["choices"][0]["delta"]["content"] or ""
PartText(delta) == IF delta = "None" THEN <<>> ELSE <<delta>>

\* response_text after the fragments ps, added in order
RECURSIVE Concat(_)
Concat(ps) == IF ps = <<>> THEN <<>> ELSE Head(ps) \o Concat(Tail(ps))

\* the texts a non-streaming completion returns
Answers == {<<"a">>, <<"a", "b">>}

NoCall == [pc |-> "unused", messages |-> <<>>, response_text |-> <<>>,
           yielded |-> <<>>, stores |-> 0, stored |-> <<>>, complete |-> FALSE]

\* self._history.store(self.chat_id, messages)
Store(msgs) == history' = msgs

\* ---- Chat.ask: load, append the user turn, completion, append the assistant
\* turn, store; a completion that raises ends the call before the store
Ask ==
    /\ chat_built.outcome = "ok"
    /\ asked < MaxAsks
    /\ asked' = asked + 1
    /\ LET n == asked + 1
           loaded == Append(history, Turn("user", Prompt(n)))
       IN  \/ /\ chat_calls' = [chat_calls EXCEPT ![n] =
                                   [NoCall EXCEPT !.pc = "raised", !.messages = loaded]]
              /\ UNCHANGED history
           \/ \E text \in Answers :
                LET all == Append(loaded, Turn("assistant", text))
                IN  /\ Store(all)
                    /\ chat_calls' = [chat_calls EXCEPT ![n] =
                          [NoCall EXCEPT !.pc = "returned", !.messages = all,
                                         !.response_text = text, !.stores = 1,
                                         !.stored = all, !.complete = TRUE]]
    /\ UNCHANGED <<chat_init, chat_built>>
    /\ UNCHANGED outsideChat

\* ---- Chat.ask_async up to its first yield point: load, append the user turn,
\* open the streaming completion (which may raise)
AskAsyncOpen ==
    /\ chat_built.outcome = "ok"
    /\ asked < MaxAsks
    /\ asked' = asked + 1
    /\ LET n == asked + 1
           loaded == Append(history, Turn("user", Prompt(n)))
       IN  \E opened \in BOOLEAN :
              chat_calls' = [chat_calls EXCEPT ![n] =
                  [NoCall EXCEPT !.pc = IF opened THEN "streaming" ELSE "raised",
                                 !.messages = loaded]]
    /\ UNCHANGED <<history, chat_init, chat_built>>
    /\ UNCHANGED outsideChat

\* (mutation) the transcript is stored after every fragment
AskAsyncPartStoresEach(n) ==
    /\ chat_calls[n].pc = "streaming"
    /\ Len(chat_calls[n].yielded) < MaxParts
    /\ \E delta \in Deltas(Len(chat_calls[n].yielded) + 1) :
         LET part == PartText(delta)
             text == chat_calls[n].response_text \o part
             all == Append(chat_calls[n].messages, Turn("assistant", text))
         IN  /\ Store(all)
             /\ chat_calls' = [chat_calls EXCEPT ![n].response_text = text,
                                                 ![n].yielded = Append(@, part),
                                                 ![n].stores = @ + 1,
                                                 ![n].stored = all]
    /\ UNCHANGED <<chat_init, chat_built, asked>>
    /\ UNCHANGED outsideChat

\* ---- one pass of `async for part in response`: accumulate, yield
AskAsyncPart(n) ==
    /\ chat_calls[n].pc = "streaming"
    /\ Len(chat_calls[n].yielded) < MaxParts
    /\ \E delta \in Deltas(Len(chat_calls[n].yielded) + 1) :
         LET part == PartText(delta)
         IN  chat_calls' = [chat_calls EXCEPT ![n].response_text = @ \o part,
                                              ![n].yielded = Append(@, part)]
    /\ UNCHANGED <<history, chat_init, chat_built, asked>>
    /\ UNCHANGED outsideChat

\* (mutation) the assistant turn is stored without the text accumulated
AskAsyncEndLosesText(n) ==
    /\ chat_calls[n].pc = "streaming"
    /\ LET all == Append(chat_calls[n].messages, Turn("assistant", <<>>))
       IN  /\ Store(all)
           /\ chat_calls' = [chat_calls EXCEPT ![n].pc = "finished",
                                               ![n].messages = all,
                                               ![n].stores = @ + 1,
                                               ![n].stored = all,
                                               ![n].complete = TRUE]
    /\ UNCHANGED <<chat_init, chat_built, asked>>
    /\ UNCHANGED outsideChat

\* ---- the stream is exhausted: append the assistant turn and store
AskAsyncEnd(n) ==
    /\ chat_calls[n].pc = "streaming"
    /\ LET all == Append(chat_calls[n].messages,
                         Turn("assistant", chat_calls[n].response_text))
       IN  /\ Store(all)
           /\ chat_calls' = [chat_calls EXCEPT ![n].pc = "finished",
                                               ![n].messages = all,
                                               ![n].stores = @ + 1,
                                               ![n].stored = all,
                                               ![n].complete = TRUE]
    /\ UNCHANGED <<chat_init, chat_built, asked>>
    /\ UNCHANGED outsideChat

\* ---- the stream raises inside `async for`: the generator ends with the error
AskAsyncFail(n) ==
    /\ chat_calls[n].pc = "streaming"
    /\ chat_calls' = [chat_calls EXCEPT ![n].pc = "failed"]
    /\ UNCHANGED <<history, chat_init, chat_built, asked>>
    /\ UNCHANGED outsideChat

\* ---- the caller stops iterating: the generator is closed at its yield
AskAsyncAbandon(n) ==
    /\ chat_calls[n].pc = "streaming"
    /\ chat_calls' = [chat_calls EXCEPT ![n].pc = "closed"]
    /\ UNCHANGED <<history, chat_init, chat_built, asked>>
    /\ UNCHANGED outsideChat

\* the transcript of the session when the Chat is constructed: new (with or
\* without a system prompt) or loaded with an earlier exchange
InitialTranscripts ==
    {<<>>,
     <<Turn("system", <<"sys">>)>>,
     <<Turn("user", <<"q", "0">>), Turn("assistant", <<"z">>)>>}

\* nothing constructed yet
Unbuilt ==
    [system_prompt |-> "None", chat_id |-> "None", self_chat_id |-> "None",
     outcome |-> "unbuilt", effects |-> <<>>]

\* (mutation) a constructor that opens a new session whatever it is given
ChatConstructAlwaysNew ==
    /\ chat_built.outcome = "unbuilt"
    /\ \E system_prompt \in {"None", "sys"}, chat_id \in {"None", "s1"} :
         /\ chat_built' = [system_prompt |-> system_prompt, chat_id |-> chat_id,
                           self_chat_id |-> "generated", outcome |-> "ok",
                           effects |-> <<"load_key", "history", "new">>]
         /\ history' = IF system_prompt = "None" THEN <<>>
                       ELSE <<Turn("system", <<system_prompt>>)>>
         /\ chat_init' = history'
    /\ UNCHANGED <<asked, chat_calls>>
    /\ UNCHANGED outsideChat

\* ---- Chat.__init__(provider, model, system_prompt, history_type, chat_id):
\* history is the transcript of the session self.chat_id names, s1 being a
\* session the backend already holds; load_key may raise
ChatConstruct ==
    /\ chat_built.outcome = "unbuilt"
    /\ \E system_prompt \in {"None", "sys"}, chat_id \in {"None", "s1"}, keyed \in BOOLEAN :
         LET built == [system_prompt |-> system_prompt, chat_id |-> chat_id,
                       self_chat_id |-> "None", outcome |-> "ok", effects |-> <<>>]
         IN  IF chat_id # "None" /\ system_prompt # "None"
             THEN /\ chat_built' = [built EXCEPT !.outcome = "ValueError"]
                  /\ UNCHANGED <<history, chat_init>>
             ELSE IF ~keyed
             THEN /\ chat_built' = [built EXCEPT !.outcome = "load_key raised",
                                                 !.effects = <<"load_key">>]
                  /\ UNCHANGED <<history, chat_init>>
             ELSE IF chat_id = "None"
             THEN /\ chat_built' = [built EXCEPT !.self_chat_id = "generated",
                                      !.effects = <<"load_key", "history", "new">>]
                  /\ history' = IF system_prompt = "None" THEN <<>>
                                ELSE <<Turn("system", <<system_prompt>>)>>
                  /\ chat_init' = history'
             ELSE /\ chat_built' = [built EXCEPT !.self_chat_id = chat_id,
                                      !.effects = <<"load_key", "history">>]
                  /\ UNCHANGED <<history, chat_init>>
    /\ UNCHANGED <<asked, chat_calls>>
    /\ UNCHANGED outsideChat

ChatInit ==
    /\ chat_init \in InitialTranscripts
    /\ history = chat_init
    /\ asked = 0
    /\ chat_calls = [n \in Asks |-> NoCall]
    /\ chat_built = Unbuilt

ChatNext ==
    \/ ChatConstruct
    \/ Ask
    \/ AskAsyncOpen
    \/ \E n \in Asks : AskAsyncPart(n)
    \/ \E n \in Asks : AskAsyncEnd(n)
    \/ \E n \in Asks : AskAsyncFail(n)
    \/ \E n \in Asks : AskAsyncAbandon(n)

\* ---------------------------------------------------------------- chat claims
\* the turns a transcript holds after the session's initial ones
Added(t) == SubSeq(t, Len(chat_init) + 1, Len(t))

\* the call whose prompt a user turn carries (0 when none)
CallOf(turn) ==
    IF \E n \in Asks : turn = Turn("user", Prompt(n))
    THEN CHOOSE n \in Asks : turn = Turn("user", Prompt(n))
    ELSE 0

\* t is the initial transcript followed by whole (user, assistant) pairs, in
\* call order, each assistant turn being the full answer of its completed call
WholePairs(t) ==
    /\ Len(t) >= Len(chat_init)
    /\ SubSeq(t, 1, Len(chat_init)) = chat_init
    /\ LET a == Added(t)
       IN  /\ Len(a) % 2 = 0
           /\ \A i \in 1..Len(a) :
                IF i % 2 = 1
                THEN /\ CallOf(a[i]) # 0
                     /\ i > 2 => CallOf(a[i - 2]) < CallOf(a[i])
                ELSE /\ a[i].role = "assistant"
                     /\ chat_calls[CallOf(a[i - 1])].complete
                     /\ a[i].content = chat_calls[CallOf(a[i - 1])].response_text

\* C7: whatever calls raised, failed or were abandoned, the persisted transcript
\* (and what every call passed to store) is the initial transcript followed by
\* whole user/assistant pairs in call order, never ending in a user turn and
\* never holding a partial assistant text.
C7_WholeTurnsOnly ==
    /\ WholePairs(history)
    /\ \A n \in Asks : chat_calls[n].stores > 0 => WholePairs(chat_calls[n].stored)

\* a stream failed part-way after yielding text, a later call completed, and
\* the transcript holds only the later call's pair
C7_Witness ==
    /\ \E n \in Asks :
          /\ chat_calls[n].pc \in {"failed", "closed"}
          /\ chat_calls[n].response_text # <<>>
    /\ \E n \in Asks : chat_calls[n].pc = "finished"
    /\ Len(Added(history)) = 2

\* C8: an ask_async call has called store exactly once when its stream was
\* consumed to exhaustion - after the last fragment, with an assistant turn
\* holding the fragments yielded, concatenated in order - and not at all before
\* that or when the stream failed or was abandoned.
C8_StoreOnceOnExhaustion ==
    \A n \in Asks :
        LET c == chat_calls[n]
        IN  /\ c.pc \in {"streaming", "failed", "closed"} => c.stores = 0
            /\ c.pc = "finished" =>
                  /\ c.stores = 1
                  /\ Last(c.stored) = Turn("assistant", Concat(c.yielded))
                  /\ Len(c.stored) >= 2
                  /\ c.stored[Len(c.stored) - 1] = Turn("user", Prompt(n))

\* a stream consumed to exhaustion that yielded an empty fragment (a None delta)
\* and then text
C8_Witness ==
    \E n \in Asks :
        /\ chat_calls[n].pc = "finished"
        /\ Len(chat_calls[n].yielded) = MaxParts
        /\ chat_calls[n].yielded[1] = <<>>
        /\ Concat(chat_calls[n].yielded) # <<>>
        /\ history = chat_calls[n].stored

\* C21: a Chat constructed with both system_prompt and chat_id fails before
\* any side effect (no key loaded, no history backend made, no session made);
\* one constructed with chat_id alone never calls the backend's new and keeps
\* the identifier, and its next ask loads that session's transcript and
\* extends it.
C21_ConstructorExclusive ==
    [][/\ (chat_built' # chat_built /\ chat_built'.chat_id # "None"
             /\ chat_built'.system_prompt # "None") =>
            /\ chat_built'.outcome = "ValueError"
            /\ chat_built'.effects = <<>>
            /\ history' = history
       /\ (chat_built' # chat_built /\ chat_built'.chat_id # "None"
             /\ chat_built'.system_prompt = "None" /\ chat_built'.outcome = "ok") =>
            /\ \A k \in 1..Len(chat_built'.effects) : chat_built'.effects[k] # "new"
            /\ chat_built'.self_chat_id = chat_built'.chat_id
            /\ history' = history
       /\ (chat_built.chat_id # "None" /\ asked = 0 /\ asked' = 1) =>
            /\ chat_calls'[1].messages # <<>>
            /\ SubSeq(chat_calls'[1].messages, 1, Len(history) + 1)
                  = Append(history, Turn("user", Prompt(1)))
            /\ chat_calls'[1].pc = "returned" =>
                  (Len(history') = Len(history) + 2
                     /\ SubSeq(history', 1, Len(history)) = history)]_vars

\* a Chat constructed on the stored session s1, which holds an exchange, has
\* answered an ask
C21_Witness ==
    /\ chat_built.outcome = "ok"
    /\ chat_built.self_chat_id = "s1"
    /\ Len(chat_init) = 2
    /\ chat_calls[1].pc = "returned"
    /\ Len(history) = 4

\* C29: when two ask / ask_async calls on one chat identifier overlap (the
\* second loads the transcript before the first has stored), the transcript
\* stored once both have finished holds both exchanges, each user turn
\* directly followed by its own assistant turn: no completed turn is lost.
C29_OverlappingAsksKeepBoth ==
    (\A n \in Asks : chat_calls[n].pc \in {"returned", "finished"}) =>
        /\ Len(Added(history)) = 2 * MaxAsks
        /\ \A n \in Asks :
              \E i \in 1..(Len(history) - 1) :
                  /\ history[i] = Turn("user", Prompt(n))
                  /\ history[i + 1] = Turn("assistant", chat_calls[n].response_text)

\* ================================================================ MultiModel
ModelDescriptors ==
    {[provider |-> "openai", name |-> "gpt-4o-mini"],
     [provider |-> "deepseek", name |-> "deepseek-chat"]}

\* the lists of models a MultiModel can be constructed with
ModelLists == UNION {[1..n -> ModelDescriptors] : n \in 0..MaxModels}

\* _process_response: the envelope of the reply of the i-th underlying call
ProcessResponse(reply, provider, name) ==
    [prompt |-> "question", response |-> reply,
     model |-> [provider |-> provider, name |-> name]]

\* what _task(model, prompt) returns once its underlying call replied
TaskValue(variant, model, reply) ==
    IF variant = "coicoi"
    THEN ProcessResponse(reply, model.provider, model.name)
    ELSE <<ProcessResponse(reply, model.provider, model.name), "None">>

Pending == [state |-> "pending", value |-> <<>>]

Completed(i) == mm_tasks[i].state = "done"

\* ---- ask / ask_async up to the await: one task per model, in list order
MultiAsk ==
    /\ mm_pc = "idle"
    /\ mm_pc' = "gathering"
    /\ mm_tasks' = [i \in 1..Len(mm_models) |-> Pending]
    /\ UNCHANGED <<mm_variant, mm_models, mm_order, mm_result>>
    /\ UNCHANGED outsideMulti

\* ---- the underlying call of task i replies and _task returns
MultiTask(i) ==
    /\ mm_pc \in {"gathering", "raised"}
    /\ i \in 1..Len(mm_models)
    /\ mm_tasks[i].state = "pending"
    /\ mm_tasks' = [mm_tasks EXCEPT ![i] =
          [state |-> "done", value |-> TaskValue(mm_variant, mm_models[i], i)]]
    /\ mm_order' = Append(mm_order, i)
    /\ UNCHANGED <<mm_variant, mm_models, mm_pc, mm_result>>
    /\ UNCHANGED outsideMulti

\* ---- the underlying call of task i raises: gather hands the first error to
\* its caller and leaves the other tasks running
MultiTaskRaises(i) ==
    /\ mm_pc \in {"gathering", "raised"}
    /\ i \in 1..Len(mm_models)
    /\ mm_tasks[i].state = "pending"
    /\ mm_tasks' = [mm_tasks EXCEPT ![i].state = "raised"]
    /\ mm_order' = Append(mm_order, i)
    /\ mm_pc' = "raised"
    /\ UNCHANGED <<mm_variant, mm_models, mm_result>>
    /\ UNCHANGED outsideMulti

\* (mutation) the values are returned in the order the calls completed
MultiReturnAsCompleted ==
    /\ mm_pc = "gathering"
    /\ \A i \in 1..Len(mm_models) : Completed(i)
    /\ mm_pc' = "returned"
    /\ mm_result' = [k \in 1..Len(mm_order) |-> mm_tasks[mm_order[k]].value]
    /\ UNCHANGED <<mm_variant, mm_models, mm_tasks, mm_order>>
    /\ UNCHANGED outsideMulti

\* ---- `return await asyncio.gather(*tasks)`: resumes when every task has
\* returned, with the values in the order of the tasks list
MultiReturn ==
    /\ mm_pc = "gathering"
    /\ \A i \in 1..Len(mm_models) : Completed(i)
    /\ mm_pc' = "returned"
    /\ mm_result' = [i \in 1..Len(mm_models) |-> mm_tasks[i].value]
    /\ UNCHANGED <<mm_variant, mm_models, mm_tasks, mm_order>>
    /\ UNCHANGED outsideMulti

MultiInit ==
    /\ mm_variant \in {"coicoi", "root"}
    /\ mm_models \in ModelLists
    /\ mm_pc = "idle"
    /\ mm_tasks = <<>>
    /\ mm_order = <<>>
    /\ mm_result = <<>>

MultiNext ==
    \/ MultiAsk
    \/ \E i \in 1..MaxModels : MultiTask(i)
    \/ \E i \in 1..MaxModels : MultiTaskRaises(i)
    \/ MultiReturn

\* ---------------------------------------------------------------- multi claims
\* the response envelope inside one returned value
Envelope(v) == IF mm_variant = "root" THEN v[1] ELSE v

\* C9: a fan-out that returns hands back exactly one envelope per configured
\* model, the i-th being the reply of the i-th model's own call and naming that
\* model, whatever order the calls completed in, and only once all have completed.
C9_ConfigurationOrder ==
    mm_pc = "returned" =>
        /\ Len(mm_result) = Len(mm_models)
        /\ \A i \in 1..Len(mm_models) :
              /\ Completed(i)
              /\ Envelope(mm_result[i]).model = mm_models[i]
              /\ Envelope(mm_result[i]).response = i

\* returned although the last configured model (a different one) replied first
C9_Witness ==
    /\ mm_pc = "returned"
    /\ Len(mm_models) >= 2
    /\ mm_order[1] = Len(mm_models)
    /\ mm_models[1] # mm_models[Len(mm_models)]

\* ================================================================ McpServer
ServerTypes == {"http", "node", "python"}
ServerUrls == {"", "http://host/mcp", "http://host/sse"}

\* the transport connect chooses: "none" when the URL of an http server is missing
TransportKind(server) ==
    IF server.server_type = "http"
    THEN IF server.server_url = "" THEN "none"
         ELSE IF server.server_url \in {"http://host/mcp"} THEN "streamable_http"
         ELSE "sse"
    ELSE "stdio"

\* the step of connect that fails or times out ("none": all three succeed)
ConnectFailures == {"none", "transport", "session", "initialize"}

Live == {"open", "ready"}

\* (mutation) the except block closes what is open but keeps the handles
TeardownKeepsHandles(session, ctx, trs, ses, session_closes, ctx_closes) ==
    LET session_raises == session # 0 /\ ~session_closes
        ctx_tried == ~session_raises /\ ctx # 0
        ctx_raises == ctx_tried /\ trs[ctx].state = "open" /\ ~ctx_closes
    IN  [session |-> session,
         ctx |-> ctx,
         sessions |-> IF session # 0 /\ session_closes /\ ses[session].state \in Live
                      THEN [ses EXCEPT ![session].state = "closed"] ELSE ses,
         transports |-> IF ctx_tried /\ ~ctx_raises /\ trs[ctx].state = "open"
                        THEN [trs EXCEPT ![ctx].state = "closed"] ELSE trs,
         outcome |-> IF session_raises \/ ctx_raises
                     THEN "teardown_error" ELSE "connection_error"]

\* the except block of connect: close the session if one is set, then the
\* transport context if one is set, clearing each handle in a finally; an
\* __aexit__ that raises leaves the block with that error, otherwise the
\* connection error is raised
Teardown(session, ctx, trs, ses, session_closes, ctx_closes) ==
    LET session_raises == session # 0 /\ ~session_closes
        ctx_tried == ~session_raises /\ ctx # 0
        ctx_raises == ctx_tried /\ trs[ctx].state = "open" /\ ~ctx_closes
    IN  [session |-> 0,
         ctx |-> IF session_raises THEN ctx ELSE 0,
         sessions |-> IF session # 0 /\ session_closes /\ ses[session].state \in Live
                      THEN [ses EXCEPT ![session].state = "closed"] ELSE ses,
         transports |-> IF ctx_tried /\ ~ctx_raises /\ trs[ctx].state = "open"
                        THEN [trs EXCEPT ![ctx].state = "closed"] ELSE trs,
         outcome |-> IF session_raises \/ ctx_raises
                     THEN "teardown_error" ELSE "connection_error"]

\* the object after connect's try block stopped at step `failed`, before the
\* except block runs: the handles assigned so far and the resources created
Attempt(failed) ==
    LET n == Len(mcp_outcomes) + 1
        t == Len(transports) + 1
        s == Len(sessions) + 1
        kind == TransportKind(mcp_server)
        opened == failed # "transport"
        entered == failed \notin {"transport", "session"}
    IN  IF kind = "none"
        THEN [session |-> mcp_session, ctx |-> mcp_ctx, reader |-> mcp_reader,
              transports |-> transports, sessions |-> sessions]
        ELSE [session |-> IF opened THEN s ELSE mcp_session,
              ctx |-> t,
              reader |-> IF opened THEN t ELSE mcp_reader,
              transports |-> Append(transports,
                  [owner |-> n, kind |-> kind,
                   state |-> IF opened THEN "open" ELSE "unopened"]),
              sessions |-> IF opened
                  THEN Append(sessions,
                         [owner |-> n, on |-> t,
                          state |-> IF failed = "none" THEN "ready"
                                    ELSE IF entered THEN "open" ELSE "unopened"])
                  ELSE sessions]

\* the body of connect, called as `op`
Connecting(op) ==
    /\ Len(mcp_outcomes) < MaxConnects
    /\ \E failed \in ConnectFailures, session_closes \in BOOLEAN, ctx_closes \in BOOLEAN :
         LET a == Attempt(failed)
             ok == failed = "none" /\ TransportKind(mcp_server) # "none"
             d == Teardown(a.session, a.ctx, a.transports, a.sessions,
                           session_closes, ctx_closes)
         IN  /\ mcp_session' = IF ok THEN a.session ELSE d.session
             /\ mcp_ctx' = IF ok THEN a.ctx ELSE d.ctx
             /\ mcp_reader' = a.reader
             /\ mcp_writer' = a.reader
             /\ transports' = IF ok THEN a.transports ELSE d.transports
             /\ sessions' = IF ok THEN a.sessions ELSE d.sessions
             /\ mcp_outcomes' = Append(mcp_outcomes, IF ok THEN "ok" ELSE d.outcome)
             /\ mcp_last' = [op |-> op, outcome |-> IF ok THEN "ok" ELSE d.outcome,
                             failed |-> IF TransportKind(mcp_server) = "none"
                                        THEN "url" ELSE failed]
    /\ UNCHANGED mcp_server

\* ---- McpServer.connect
connect ==
    /\ Connecting("connect")
    /\ UNCHANGED mcp_scope
    /\ UNCHANGED outsideMcp

\* a call on the session: refused without a session, otherwise the server's answer
SessionCall(op) ==
    /\ \E answered \in BOOLEAN :
         mcp_last' = [op |-> op, failed |-> "none",
                      outcome |-> IF mcp_session = 0 THEN "not_connected"
                                  ELSE IF answered /\ sessions[mcp_session].state = "ready"
                                  THEN "ok" ELSE "error"]
    /\ UNCHANGED <<mcp_server, mcp_session, mcp_ctx, mcp_reader, mcp_writer,
                   transports, sessions, mcp_outcomes, mcp_scope>>
    /\ UNCHANGED outsideMcp

\* ---- McpServer.get_tools
get_tools == SessionCall("get_tools")

\* ---- McpServer.call_tool
call_tool == SessionCall("call_tool")

\* the body of disconnect, called as `op`: close the session, then the
\* transport; an __aexit__ that raises ends the call with the handle still set
Disconnecting(op) ==
    /\ \E session_closes \in BOOLEAN, ctx_closes \in BOOLEAN :
         LET session_raises == mcp_session # 0 /\ ~session_closes
             ctx_tried == ~session_raises /\ mcp_ctx # 0
             ctx_raises == ctx_tried /\ transports[mcp_ctx].state = "open" /\ ~ctx_closes
         IN  /\ mcp_session' = IF session_raises THEN mcp_session ELSE 0
             /\ mcp_ctx' = IF session_raises \/ ctx_raises THEN mcp_ctx ELSE 0
             /\ sessions' = IF mcp_session # 0 /\ session_closes
                               /\ sessions[mcp_session].state \in Live
                            THEN [sessions EXCEPT ![mcp_session].state = "closed"]
                            ELSE sessions
             /\ transports' = IF ctx_tried /\ ~ctx_raises
                                 /\ transports[mcp_ctx].state = "open"
                              THEN [transports EXCEPT ![mcp_ctx].state = "closed"]
                              ELSE transports
             /\ mcp_last' = [op |-> op, failed |-> "none",
                             outcome |-> IF session_raises \/ ctx_raises
                                         THEN "error" ELSE "ok"]
    /\ UNCHANGED <<mcp_server, mcp_reader, mcp_writer, mcp_outcomes>>

\* ---- McpServer.disconnect
disconnect ==
    /\ Disconnecting("disconnect")
    /\ UNCHANGED mcp_scope
    /\ UNCHANGED outsideMcp

NoScope == [pc |-> "out", call |-> 0, how |-> "none"]

\* ---- session_context up to its yield: `await self.connect()`; a connect
\* that raises sends the generator to its finally clause
session_context_enter ==
    /\ mcp_scope.pc = "out"
    /\ Connecting("session_enter")
    /\ mcp_scope' = [call |-> Len(mcp_outcomes) + 1,
                     pc |-> IF mcp_last'.outcome = "ok" THEN "body" ELSE "unwinding",
                     how |-> IF mcp_last'.outcome = "ok" THEN "none"
                             ELSE mcp_last'.outcome]
    /\ UNCHANGED outsideMcp

\* (mutation) session_context without the finally: an exception in the body or
\* in connect leaves the scope without disconnect
session_context_exit_unprotected ==
    /\ mcp_scope.pc \in {"body", "unwinding"}
    /\ \E how \in {"normal", "body_error"} :
         LET left == IF mcp_scope.pc = "unwinding" THEN mcp_scope.how ELSE how
         IN  /\ mcp_scope' = [mcp_scope EXCEPT !.pc = "out", !.how = left]
             /\ IF left = "normal"
                THEN Disconnecting("session_exit")
                ELSE /\ mcp_last' = [op |-> "session_exit", failed |-> "none",
                                     outcome |-> "ok"]
                     /\ UNCHANGED <<mcp_server, mcp_session, mcp_ctx, mcp_reader,
                                    mcp_writer, transports, sessions, mcp_outcomes>>
    /\ UNCHANGED outsideMcp

\* ---- session_context from its yield on: the body ends normally or raises
\* (or connect had raised), and the finally clause awaits disconnect
session_context_exit ==
    /\ mcp_scope.pc \in {"body", "unwinding"}
    /\ \E how \in {"normal", "body_error"} :
         mcp_scope' = [mcp_scope EXCEPT !.pc = "out",
                          !.how = IF mcp_scope.pc = "unwinding" THEN @ ELSE how]
    /\ Disconnecting("session_exit")
    /\ UNCHANGED outsideMcp

NoOperation == [op |-> "none", outcome |-> "none", failed |-> "none"]

McpInit ==
    /\ mcp_server \in [server_type : ServerTypes, server_url : ServerUrls]
    /\ mcp_session = 0
    /\ mcp_ctx = 0
    /\ mcp_reader = 0
    /\ mcp_writer = 0
    /\ transports = <<>>
    /\ sessions = <<>>
    /\ mcp_outcomes = <<>>
    /\ mcp_last = NoOperation
    /\ mcp_scope = NoScope

McpNext ==
    \/ connect
    \/ get_tools
    \/ call_tool
    \/ disconnect
    \/ session_context_enter
    \/ session_context_exit

\* ---------------------------------------------------------------- mcp claims
\* the last connect call raised the connection error and none was made since
ConnectFailed == mcp_outcomes # <<>> /\ Last(mcp_outcomes) = "connection_error"

C11_OnlyReferencedOpen ==
    (\A k \in 1..Len(mcp_outcomes) : mcp_outcomes[k] # "teardown_error") =>
    /\ \A t \in 1..Len(transports) : transports[t].state = "open" => t = mcp_ctx
    /\ \A x \in 1..Len(sessions) : sessions[x].state \in Live => x = mcp_session

\* the scope was just left in one of the three ways, its disconnect returned,
\* and the body made no connect call of its own
ScopeLeft ==
    /\ mcp_scope.pc = "out"
    /\ mcp_scope.how \in {"normal", "body_error", "connection_error"}
    /\ mcp_last = [op |-> "session_exit", failed |-> "none", outcome |-> "ok"]
    /\ Len(mcp_outcomes) = mcp_scope.call

Disconnected ==
    /\ mcp_session = 0
    /\ mcp_ctx = 0
    /\ \A t \in 1..Len(transports) :
          transports[t].owner = mcp_scope.call => transports[t].state # "open"
    /\ \A x \in 1..Len(sessions) :
          sessions[x].owner = mcp_scope.call => sessions[x].state \notin Live

Frame(type, prompt, k) == [type |-> type, prompt |-> prompt, k |-> k]

\* the handler is suspended, so the event loop can run other tasks: at
\* `await websocket.receive_text()`, and inside an ask / run that awaits
Suspended == ws_pc = "receiving" \/ (ws_pc = "asking" /\ ws_async)

ErrorsSent == Cardinality({i \in 1..Len(ws_frames) : ws_frames[i].type = "error"})

\* ---- websocket.accept(); the agent route refuses an unknown agent and closes
WsAccept ==
    /\ ws_pc = "accepting"
    /\ IF ws_route.known
       THEN ws_pc' = "receiving" /\ UNCHANGED ws_frames
       ELSE /\ ws_pc' = "closed"
            /\ ws_frames' = Append(ws_frames, Frame("error", 0, 0))
    /\ UNCHANGED <<ws_route, ws_async, ws_prompt, ws_produced, ws_tasks>>
    /\ UNCHANGED outsideWs

\* ---- one message received: an error frame for text that is not JSON or has
\* no prompt (and the loop goes on), the outer except for a body that is not an
\* object, otherwise the streaming handler is installed and the model is asked
WsReceive ==
    /\ ws_pc = "receiving"
    /\ \E body \in Bodies :
         CASE body \in {"badjson", "noprompt"} ->
                /\ ErrorsSent < MaxErrors
                /\ ws_frames' = Append(ws_frames, Frame("error", 0, 0))
                /\ UNCHANGED <<ws_pc, ws_prompt, ws_produced>>
           [] body = "nonobject" ->
                /\ ws_frames' = Append(ws_frames, Frame("error", 0, 0))
                /\ ws_pc' = "closed"
                /\ UNCHANGED <<ws_prompt, ws_produced>>
           [] OTHER ->
                /\ ws_prompt < MaxPrompts
                /\ ws_prompt' = ws_prompt + 1
                /\ ws_produced' = 0
                /\ ws_pc' = "asking"
                /\ UNCHANGED ws_frames
    /\ UNCHANGED <<ws_route, ws_async, ws_tasks>>
    /\ UNCHANGED outsideWs

\* ---- the model produces a fragment and calls ws_stream_handler, which
\* creates a task for the send and returns
WsFragment ==
    /\ ws_pc = "asking"
    /\ ws_produced < MaxFragments
    /\ ws_produced' = ws_produced + 1
    /\ ws_tasks' = Append(ws_tasks, Frame("chunk", ws_prompt, ws_produced + 1))
    /\ UNCHANGED <<ws_route, ws_async, ws_pc, ws_prompt, ws_frames>>
    /\ UNCHANGED outsideWs

\* ---- the event loop runs the oldest task: its frame is sent (a send on the
\* closed socket fails inside the task)
WsChunkTask ==
    /\ ws_tasks # <<>>
    /\ Suspended \/ ws_pc = "closed"
    /\ ws_tasks' = Tail(ws_tasks)
    /\ ws_frames' = IF ws_pc = "closed" THEN ws_frames
                    ELSE Append(ws_frames, Head(ws_tasks))
    /\ UNCHANGED <<ws_route, ws_async, ws_pc, ws_prompt, ws_produced>>
    /\ UNCHANGED outsideWs

\* ---- ask / run returns and the handler sends the complete frame itself
WsComplete ==
    /\ ws_pc = "asking"
    /\ ws_frames' = Append(ws_frames, Frame("complete", ws_prompt, 0))
    /\ ws_pc' = "receiving"
    /\ UNCHANGED <<ws_route, ws_async, ws_prompt, ws_produced, ws_tasks>>
    /\ UNCHANGED outsideWs

\* ---- ask / run raises, or the client goes away: the outer except sends an
\* error frame and the finally closes the socket
WsRaise ==
    /\ ws_pc \in {"asking", "receiving"}
    /\ ws_frames' = Append(ws_frames, Frame("error", 0, 0))
    /\ ws_pc' = "closed"
    /\ UNCHANGED <<ws_route, ws_async, ws_prompt, ws_produced, ws_tasks>>
    /\ UNCHANGED outsideWs

WsInit ==
    /\ ws_route \in {[route |-> "model_ws", known |-> TRUE],
                     [route |-> "agent_ws", known |-> TRUE],
                     [route |-> "agent_ws", known |-> FALSE]}
    /\ ws_async \in BOOLEAN
    /\ ws_pc = "accepting"
    /\ ws_prompt = 0
    /\ ws_produced = 0
    /\ ws_tasks = <<>>
    /\ ws_frames = <<>>

WsNext ==
    \/ WsAccept
    \/ WsReceive
    \/ WsFragment
    \/ WsChunkTask
    \/ WsComplete
    \/ WsRaise

\* ---------------------------------------------------------------- ws claims
\* C14: on the socket, every chunk frame of a prompt comes before that
\* prompt's complete frame, the chunk frames of a prompt come in the order
\* their fragments were produced, and a prompt has one complete frame (once
\* its ask has returned; never two).
C14_ChunksBeforeComplete ==
    /\ \A i, j \in 1..Len(ws_frames) :
          (/\ ws_frames[i].type = "chunk"
           /\ ws_frames[j].prompt = ws_frames[i].prompt) =>
              /\ ws_frames[j].type = "complete" => i < j
              /\ (ws_frames[j].type = "chunk" /\ ws_frames[i].k < ws_frames[j].k) => i < j
    /\ \A n \in 1..MaxPrompts :
          LET completes == {j \in 1..Len(ws_frames) :
                              ws_frames[j] = Frame("complete", n, 0)}
          IN  /\ Cardinality(completes) <= 1
              /\ (n < ws_prompt \/ (n = ws_prompt /\ ws_pc = "receiving")) =>
                    Cardinality(completes) = 1

\* ================================================================ key manager
_KEY_EXT == "_API_KEY"

\* the provider names load_key is called with, in the spellings callers use
Providers == {"openai", "OPENAI", "deepseek"}

\* str.upper on the names that occur
Upper(s) ==
    CASE s = "openai" -> "OPENAI"
      [] s = "deepseek" -> "DEEPSEEK"
      [] s = "openai_API_KEY" -> "OPENAI_API_KEY"
      [] s = "deepseek_API_KEY" -> "DEEPSEEK_API_KEY"
      [] OTHER -> s

\* the names a variable of the environment can have
EnvNames == {p \o _KEY_EXT : p \in Providers} \cup {Upper(p) \o _KEY_EXT : p \in Providers}

\* the names the parsed key file is indexed by
KeyNames == {Upper(p) \o _KEY_EXT : p \in Providers}

\* a line "provider=key" of the key file, as written by the user
KeyLines ==
    { [provider |-> "openai", key |-> "sk-1"],
      [provider |-> "OPENAI_API_KEY", key |-> "sk-2"],
      [provider |-> "deepseek", key |-> "sk-3"] }

KeyFiles ==
    { [exists |-> FALSE, lines |-> <<>>] } \cup
    { [exists |-> TRUE, lines |-> l] :
        l \in UNION { [1..n -> KeyLines] : n \in 0..MaxLines } }

\* the dictionary _load_keys_from_file builds from the lines of the file
RECURSIVE ParseKeys(_)
ParseKeys(lines) ==
    IF lines = <<>> THEN [k \in KeyNames |-> "None"]
    ELSE LET line == Last(lines)
             upper == Upper(line.provider)
             provider == IF \E p \in Providers : upper = Upper(p) \o _KEY_EXT
                         THEN upper ELSE upper \o _KEY_EXT
         IN  [ParseKeys(SubSeq(lines, 1, Len(lines) - 1)) EXCEPT ![provider] = line.key]

NotLoaded == [loaded |-> FALSE, keys |-> [k \in KeyNames |-> "None"]]

\* "if self._keys is None" forgotten: the file is read on every lookup
KeysNeverCached(cache) == TRUE

\* "if self._keys is None"
KeysIsNone(cache) == ~cache.loaded

KeyCall(provider, outcome, opened) ==
    [provider |-> provider, outcome |-> outcome, opened |-> opened]

\* _KeyManager.load_key with _load_keys_from_file
KeyManagerLoadKey(provider) ==
    LET key_name == Upper(provider) \o _KEY_EXT
        reads == KeysIsNone(_keys)
        cache == IF reads THEN [loaded |-> TRUE, keys |-> ParseKeys(providers_keys.lines)]
                 ELSE _keys
        key == cache.keys[key_name]
    IN  IF reads /\ ~providers_keys.exists
        THEN /\ key_last' = KeyCall(provider, "FileNotFoundError", FALSE)
             /\ UNCHANGED <<environ, _keys, file_reads>>
        ELSE /\ _keys' = cache
             /\ file_reads' = IF reads THEN file_reads + 1 ELSE file_reads
             /\ IF key = "None"
                THEN /\ key_last' = KeyCall(provider, "ValueError", reads)
                     /\ UNCHANGED environ
                ELSE /\ key_last' = KeyCall(provider, "set", reads)
                     /\ environ' = [environ EXCEPT ![key_name] = key]

\* _load_keys_from_colab: the secret store has the secret or raises
LoadKeysFromColab(provider, key_name) ==
    /\ \E found \in BOOLEAN :
         IF found
         THEN /\ environ' = [environ EXCEPT ![key_name] = "secret"]
              /\ key_last' = KeyCall(provider, "set", FALSE)
         ELSE /\ key_last' = KeyCall(provider, "SecretNotFoundError", FALSE)
              /\ UNCHANGED environ
    /\ UNCHANGED <<_keys, file_reads>>

\* load_key(provider) of the module
load_key(provider) ==
    /\ key_calls < MaxLoads
    /\ provider \in Providers
    /\ key_calls' = key_calls + 1
    /\ LET key_name == provider \o _KEY_EXT
       IN  IF environ[key_name] # "unset"
           THEN /\ key_last' = KeyCall(provider, "returned", FALSE)
                /\ UNCHANGED <<environ, _keys, file_reads>>
           ELSE IF colab
           THEN LoadKeysFromColab(provider, key_name)
           ELSE KeyManagerLoadKey(provider)
    /\ UNCHANGED <<providers_keys, colab>>
    /\ UNCHANGED outsideKeys

\* the user edits, creates or deletes the key file between two lookups
WriteKeyFile ==
    /\ \E f \in KeyFiles : f # providers_keys /\ providers_keys' = f
    /\ UNCHANGED <<environ, _keys, file_reads, colab, key_calls, key_last>>
    /\ UNCHANGED outsideKeys

KeysInit ==
    /\ environ \in [EnvNames -> {"unset", "exported"}]
    /\ \A n \in EnvNames \ KeyNames : environ[n] = "unset"
    /\ _keys = NotLoaded
    /\ providers_keys \in KeyFiles
    /\ file_reads = 0
    /\ colab \in BOOLEAN
    /\ key_calls = 0
    /\ key_last = KeyCall("openai", "none", FALSE)

KeysNext ==
    \/ \E provider \in Providers : load_key(provider)
    \/ WriteKeyFile

\* C15: over any sequence of load_key calls the key file is opened and parsed
\* at most once: only a lookup made while nothing was read yet opens it, and
\* every lookup after that read is answered from the cache or is a no-op.
C15_FileReadAtMostOnce ==
    [][/\ file_reads' # file_reads => (file_reads = 0 /\ file_reads' = 1 /\ key_last'.opened)
       /\ (key_calls' # key_calls /\ file_reads = 1) => ~key_last'.opened]_vars

\* a lookup answered from the cache after the file, read once, was changed on disk
C15_Witness ==
    /\ file_reads = 1
    /\ key_calls >= 2
    /\ key_last.outcome \in {"set", "ValueError"}
    /\ ~key_last.opened
    /\ providers_keys.exists
    /\ ParseKeys(providers_keys.lines) # _keys.keys

\* C16: a load_key(provider) call made while {PROVIDER_UPPER}_API_KEY is set
\* returns at once, whatever the spelling of provider: it reads neither the
\* key file nor the secret store, does not fail and leaves the environment as it was.
C16_EnvSetReturnsImmediately ==
    [][(key_calls' # key_calls
          /\ environ[Upper(key_last'.provider) \o _KEY_EXT] # "unset") =>
            /\ key_last'.outcome = "returned"
            /\ environ' = environ
            /\ file_reads' = file_reads]_vars

\* ================================================================ Config
\* the built-in defaults as written in the class body
DefaultConfig ==
    [keysfile_path |-> "providers.keys",
     prompts_path |-> "",
     base_model |-> [provider |-> "openai", model |-> "gpt-4o-mini"]]

\* _config["base_model"] is the very dictionary object _DEFAULT_CONFIG["base_model"]
SharedBaseModel == "_DEFAULT_CONFIG['base_model']"

\* what coiconf.yaml can hold: no file, or a mapping in which each of
\* keysfile_path, base_model, base_model.provider and base_model.model is
\* given or left out; base_model is a nested mapping or a scalar
ConfigFiles ==
    [exists : BOOLEAN,
     keysfile_path : {"absent", "other.keys"},
     base_model : {"absent", "mapping", "gpt-4"},
     provider : {"absent", "anthropic"},
     model : {"absent", "claude"}]

NoConfigFile ==
    [exists |-> FALSE, keysfile_path |-> "absent", base_model |-> "absent",
     provider |-> "absent", model |-> "absent"]

\* a file as yaml.safe_load returns it: fields outside a nested mapping do not exist
WellFormed(f) ==
    /\ ~f.exists => f = NoConfigFile
    /\ f.base_model # "mapping" => (f.provider = "absent" /\ f.model = "absent")

\* _merge_config(base[key], value) for the nested mapping base_model
MergeBaseModel(base, override) ==
    [provider |-> IF override.provider # "absent" THEN override.provider ELSE base.provider,
     model |-> IF override.model # "absent" THEN override.model ELSE base.model]

\* self._config = self._DEFAULT_CONFIG.copy(): a new top-level dictionary
\* whose values are the objects the class attribute holds
ShallowCopy(d) ==
    [keysfile_path |-> d.keysfile_path,
     prompts_path |-> d.prompts_path,
     base_model |-> SharedBaseModel]

\* _load_config with _merge_config(self._config, file_config), self._config
\* being the copy just made: a nested mapping of the file is merged into the
\* object base["base_model"] refers to, anything else is assigned to base[key]
_load_config(copy) ==
    IF ~coiconf.exists
    THEN _config' = copy /\ UNCHANGED _DEFAULT_CONFIG
    ELSE /\ _config' =
              [copy EXCEPT
                 !.keysfile_path = IF coiconf.keysfile_path # "absent"
                                   THEN coiconf.keysfile_path ELSE @,
                 !.base_model = IF coiconf.base_model \in {"absent", "mapping"}
                                THEN @ ELSE coiconf.base_model]
         /\ _DEFAULT_CONFIG' =
              IF coiconf.base_model = "mapping"
              THEN [_DEFAULT_CONFIG EXCEPT !.base_model = MergeBaseModel(@, coiconf)]
              ELSE _DEFAULT_CONFIG

\* Config() for the first time: __new__ calls _initialize
_initialize ==
    /\ config_loads = 0
    /\ config_loads' = 1
    /\ _load_config(ShallowCopy(_DEFAULT_CONFIG))
    /\ UNCHANGED coiconf
    /\ UNCHANGED outsideConfig

\* Config().reload()
reload ==
    /\ config_loads \in 1..MaxReloads
    /\ config_loads' = config_loads + 1
    /\ _load_config(ShallowCopy(_DEFAULT_CONFIG))
    /\ UNCHANGED coiconf
    /\ UNCHANGED outsideConfig

\* the file is edited, created or deleted between two loads
WriteConfigFile ==
    /\ \E f \in ConfigFiles : WellFormed(f) /\ f # coiconf /\ coiconf' = f
    /\ UNCHANGED <<_DEFAULT_CONFIG, _config, config_loads>>
    /\ UNCHANGED outsideConfig

\* the configuration as get and get_all read it
get_all ==
    [_config EXCEPT
       !.base_model = IF @ = SharedBaseModel
                      THEN [kind |-> "mapping",
                            provider |-> _DEFAULT_CONFIG.base_model.provider,
                            model |-> _DEFAULT_CONFIG.base_model.model]
                      ELSE [kind |-> @, provider |-> "", model |-> ""]]

ConfigInit ==
    /\ _DEFAULT_CONFIG = DefaultConfig
    /\ _config = ShallowCopy(DefaultConfig)
    /\ coiconf \in ConfigFiles
    /\ WellFormed(coiconf)
    /\ config_loads = 0

ConfigNext ==
    \/ _initialize
    \/ reload
    \/ WriteConfigFile

\* the built-in defaults recursively merged with the file f
DefaultsMergedWith(f) ==
    [keysfile_path |-> IF f.keysfile_path # "absent" THEN f.keysfile_path
                       ELSE DefaultConfig.keysfile_path,
     prompts_path |-> DefaultConfig.prompts_path,
     base_model |->
        IF f.base_model = "absent"
        THEN [kind |-> "mapping", provider |-> DefaultConfig.base_model.provider,
              model |-> DefaultConfig.base_model.model]
        ELSE IF f.base_model = "mapping"
        THEN [kind |-> "mapping",
              provider |-> MergeBaseModel(DefaultConfig.base_model, f).provider,
              model |-> MergeBaseModel(DefaultConfig.base_model, f).model]
        ELSE [kind |-> f.base_model, provider |-> "", model |-> ""]]

\* C17: after every load and reload the configuration is the built-in
\* defaults recursively merged with the file as it is now, and nothing of an
\* earlier file: a value the current file leaves out, nested ones such as
\* base_model.provider included, reads as its built-in default.
C17_ReloadFromDefaults ==
    [][config_loads' # config_loads => get_all' = DefaultsMergedWith(coiconf)]_vars

\* ================================================================ prompt execution
\* Texts are sequences of pieces; + on strings is \o.
\* the prompts asked: a plain string, a Prompt, a PromptChain of size steps,
\* an IterativePrompt over size items with or without a memory template
ExecPrompts ==
    { [kind |-> "str", size |-> 1, has_memory |-> FALSE],
      [kind |-> "Prompt", size |-> 1, has_memory |-> FALSE] } \cup
    { [kind |-> "PromptChain", size |-> n, has_memory |-> FALSE] : n \in 1..MaxSteps } \cup
    { [kind |-> "IterativePrompt", size |-> n, has_memory |-> mem] :
        n \in 1..MaxSteps, mem \in BOOLEAN }

\* what one run of the agent can answer
Outputs == {<<"A">>, <<"B">>}

None == <<"None">>

\* str(self._prompts[index]) of a chain; self._prompt.format(data=self._iter_data[index])
\* of an iterative prompt; str(prompt) otherwise
PromptText(prompt, index) ==
    CASE prompt.kind = "PromptChain" -> <<"step" \o ToString(index)>>
      [] prompt.kind = "IterativePrompt" -> <<"item" \o ToString(index)>>
      [] OTHER -> <<"question">>

\* format that forgets the carried context
PromptChain_format_alone(chain, index, context) == PromptText(chain, index)

\* PromptChain.format(index, context)
PromptChain_format(chain, index, context) ==
    IF context = None
    THEN PromptText(chain, index)
    ELSE PromptText(chain, index) \o <<"\n\n">> \o context

\* IterativePrompt.format(index, context), indices counted from 1
IterativePrompt_format(prompt, index, context) ==
    IF prompt.has_memory /\ index > 1
    THEN PromptText(prompt, index) \o <<"\n\n">> \o <<"memory:">> \o context
    ELSE PromptText(prompt, index)

\* an input the agent is run on: a string, or the prompt object itself
RunOn(type, text) == [type |-> type, text |-> text]

\* the loop of _execute_chain and _execute_chain_async after i passes
RECURSIVE ChainLoop(_, _, _)
ChainLoop(chain, outs, i) ==
    IF i = 0 THEN [runs |-> <<>>, response |-> None]
    ELSE LET before == ChainLoop(chain, outs, i - 1)
             current_prompt == PromptChain_format(chain, i, before.response)
         IN  [runs |-> Append(before.runs, RunOn("str", current_prompt)),
              response |-> outs[i]]

_execute_chain(chain, outs) ==
    LET end == ChainLoop(chain, outs, chain.size)
    IN  [runs |-> end.runs, value |-> [type |-> "str", output |-> end.response]]

_execute_chain_async(chain, outs) ==
    LET end == ChainLoop(chain, outs, chain.size)
    IN  [runs |-> end.runs, value |-> [type |-> "AgentRunResult", output |-> end.response]]

\* the loop of _execute_iterative after i passes
RECURSIVE IterativeLoop(_, _, _)
IterativeLoop(prompt, outs, i) ==
    IF i = 0 THEN [runs |-> <<>>, response |-> <<>>, current_response |-> <<>>]
    ELSE LET before == IterativeLoop(prompt, outs, i - 1)
             current_prompt ==
                 IF i > 1 /\ prompt.has_memory
                 THEN IterativePrompt_format(prompt, i, before.current_response)
                 ELSE IterativePrompt_format(prompt, i, <<>>)
         IN  [runs |-> Append(before.runs, RunOn("str", current_prompt)),
              response |-> before.response \o outs[i],
              current_response |-> outs[i]]

_execute_iterative(prompt, outs) ==
    LET end == IterativeLoop(prompt, outs, prompt.size)
    IN  [runs |-> end.runs, value |-> [type |-> "str", output |-> end.response]]

_execute(prompt, outs) ==
    CASE prompt.kind = "PromptChain" -> _execute_chain(prompt, outs)
      [] prompt.kind = "IterativePrompt" -> _execute_iterative(prompt, outs)
      [] OTHER -> [runs |-> <<RunOn("str", PromptText(prompt, 1))>>,
                   value |-> [type |-> "str", output |-> outs[1]]]

_execute_async(prompt, outs) ==
    IF prompt.kind = "PromptChain"
    THEN _execute_chain_async(prompt, outs)
    ELSE [runs |-> <<RunOn(prompt.kind, PromptText(prompt, 1))>>,
          value |-> [type |-> "AgentRunResult", output |-> outs[1]]]

NotAsked == ProcessResponse([type |-> "none", output |-> <<>>], "openai", "gpt-4o-mini")

\* Model.ask(prompt)
ask ==
    /\ ex_call = "none"
    /\ \E outs \in [1..MaxSteps -> Outputs] :
         LET executed == _execute(ex_prompt, outs)
         IN  /\ ex_replies' = outs
             /\ ex_runs' = executed.runs
             /\ ex_result' = ProcessResponse(executed.value, "openai", "gpt-4o-mini")
    /\ ex_call' = "ask"
    /\ UNCHANGED ex_prompt
    /\ UNCHANGED outsideExec

\* Model.ask_async(prompt)
ask_async ==
    /\ ex_call = "none"
    /\ \E outs \in [1..MaxSteps -> Outputs] :
         LET executed == _execute_async(ex_prompt, outs)
         IN  /\ ex_replies' = outs
             /\ ex_runs' = executed.runs
             /\ ex_result' = ProcessResponse(executed.value, "openai", "gpt-4o-mini")
    /\ ex_call' = "ask_async"
    /\ UNCHANGED ex_prompt
    /\ UNCHANGED outsideExec

ExecInit ==
    /\ ex_prompt \in ExecPrompts
    /\ ex_call = "none"
    /\ ex_replies = [i \in 1..MaxSteps |-> <<"A">>]
    /\ ex_runs = <<>>
    /\ ex_result = NotAsked

ExecNext ==
    \/ ask
    \/ ask_async

\* C18: asking a PromptChain of n >= 1 steps runs the agent exactly n times,
\* in step order: step 1 on its own text, every later step on its own text, a
\* blank line and the raw output of the step before; the response is the
\* output of the last step only.
C18_ChainThreadsPreviousOutput ==
    (ex_call = "ask" /\ ex_prompt.kind = "PromptChain") =>
        /\ Len(ex_runs) = ex_prompt.size
        /\ ex_runs[1] = RunOn("str", <<"step1">>)
        /\ \A i \in 2..ex_prompt.size :
             ex_runs[i] = RunOn("str", <<"step" \o ToString(i), "\n\n">> \o ex_replies[i - 1])
        /\ ex_result.response = [type |-> "str", output |-> ex_replies[ex_prompt.size]]

\* a chain of three steps was asked and its steps answered differently
C18_Witness ==
    /\ ex_call = "ask"
    /\ ex_prompt.kind = "PromptChain"
    /\ ex_prompt.size >= 3
    /\ Len(ex_runs) = ex_prompt.size
    /\ ex_replies[1] # ex_replies[2]
    /\ ex_replies[2] # ex_replies[3]

\* C19: asking an IterativePrompt of n items runs the agent exactly n times,
\* in item order, and returns the outputs concatenated in that order; with a
\* memory template item 1 is rendered without it and every later item with
\* the running response, the concatenation of all the outputs before it.
C19_IterativeCarriesRunningResponse ==
    (ex_call = "ask" /\ ex_prompt.kind = "IterativePrompt") =>
        /\ Len(ex_runs) = ex_prompt.size
        /\ ex_result.response =
              [type |-> "str", output |-> Concat(SubSeq(ex_replies, 1, ex_prompt.size))]
        /\ \A i \in 1..ex_prompt.size :
             ex_runs[i] =
               RunOn("str",
                     IF ex_prompt.has_memory /\ i > 1
                     THEN <<"item" \o ToString(i), "\n\n", "memory:">>
                            \o Concat(SubSeq(ex_replies, 1, i - 1))
                     ELSE <<"item" \o ToString(i)>>)

\* C20: for each kind of prompt ask_async runs the agent on the same texts in
\* the same order as ask does with the same replies, and puts the same
\* response text in the envelope.
C20_AsyncDispatchesAsSync ==
    ex_call = "ask_async" =>
        /\ ex_runs = _execute(ex_prompt, ex_replies).runs
        /\ ex_result = ProcessResponse(_execute(ex_prompt, ex_replies).value,
                                       "openai", "gpt-4o-mini")

\* ================================================================ user identification
\* A call: the body's user_id (None when absent), what the configured
\* validator does with it ("None": no validator), the entries of the
\* X-Forwarded-For header (none: header absent or empty), X-Real-IP,
\* request.client.host ("None": not there) and request.url.hostname
\* ("absent": the object has no url.hostname, "None": the attribute is None).
IdentCalls ==
    [user_id : {"None", "", "alice"},
     validator : {"None", "True", "False", "normalized", "other", "raises"},
     forwarded_for : {<<>>, <<"1.1.1.1">>, <<"1.1.1.1", "2.2.2.2">>},
     real_ip : {"None", "3.3.3.3"},
     client : {"None", "4.4.4.4"},
     hostname : {"absent", "None", "example.com"}]

\* (mutation) a user_id the validator answered False for is used all the same
IdentifierIgnoringRejection(call) ==
    IF call.user_id \notin {"None", ""} /\ call.validator \in {"None", "True", "False"}
    THEN call.user_id
    ELSE IF call.user_id \notin {"None", ""} /\ call.validator = "normalized"
    THEN "normalized"
    ELSE "ip:" \o (IF call.forwarded_for # <<>> THEN Head(call.forwarded_for)
                   ELSE IF call.real_ip # "None" THEN call.real_ip
                   ELSE IF call.client # "None" THEN call.client
                   ELSE IF call.hostname # "absent" THEN call.hostname
                   ELSE "unknown")

\* Application._get_user_identifier(request, data)
_get_user_identifier(call) ==
    LET client_ip ==
            IF call.forwarded_for # <<>> THEN Head(call.forwarded_for)
            ELSE IF call.real_ip # "None" THEN call.real_ip
            ELSE IF call.client # "None" THEN call.client
            ELSE IF call.hostname # "absent" THEN call.hostname
            ELSE "unknown"
        fallback == "ip:" \o client_ip
    IN  IF call.user_id \in {"None", ""} THEN fallback
        ELSE IF call.validator = "None" THEN call.user_id
        ELSE IF call.validator = "True" THEN call.user_id
        ELSE IF call.validator = "normalized" THEN "normalized"
        ELSE fallback

NotIdentified == [c \in {"none"} |-> "none"]

GetUserIdentifier ==
    /\ ident_call = NotIdentified
    /\ \E call \in IdentCalls :
         /\ ident_call' = call
         /\ ident_result' = _get_user_identifier(call)
    /\ UNCHANGED outsideIdent

IdentInit ==
    /\ ident_call = NotIdentified
    /\ ident_result = "none"

IdentNext ==
    \/ GetUserIdentifier

\* the call left the user_id unused: it was absent or empty, or the validator
\* answered False or something that is neither True nor a string, or raised
FallsBack ==
    \/ ident_call.user_id \in {"None", ""}
    \/ ident_call.validator \in {"False", "other", "raises"}

\* C25 as stated: ... otherwise the identifier is ip:{address}, the address
\* being the first X-Forwarded-For entry, else X-Real-IP, else the peer
\* address, else 'unknown'.
C25_IdentifierAsStated ==
    ident_call # NotIdentified =>
        ident_result =
            IF ~FallsBack
            THEN (IF ident_call.validator = "normalized" THEN "normalized"
                  ELSE ident_call.user_id)
            ELSE IF ident_call.forwarded_for # <<>>
            THEN "ip:" \o ident_call.forwarded_for[1]
            ELSE IF ident_call.real_ip # "None" THEN "ip:" \o ident_call.real_ip
            ELSE IF ident_call.client # "None" THEN "ip:" \o ident_call.client
            ELSE "ip:unknown"

\* C25 amended: the user_id is returned when no validator is configured or the
\* validator returns True, the validator's string when it returns one, and
\* otherwise ip:{address} with the first X-Forwarded-For entry, else
\* X-Real-IP, else the peer address, else the host name of the request's URL
\* (None included), else 'unknown' when the request has no URL host name; a
\* user_id the validator rejected is never the identity.
C25_IdentifierWithUrlHost ==
    ident_call # NotIdentified =>
        /\ ident_result =
            IF ~FallsBack
            THEN (IF ident_call.validator = "normalized" THEN "normalized"
                  ELSE ident_call.user_id)
            ELSE IF ident_call.forwarded_for # <<>>
            THEN "ip:" \o ident_call.forwarded_for[1]
            ELSE IF ident_call.real_ip # "None" THEN "ip:" \o ident_call.real_ip
            ELSE IF ident_call.client # "None" THEN "ip:" \o ident_call.client
            ELSE IF ident_call.hostname # "absent" THEN "ip:" \o ident_call.hostname
            ELSE "ip:unknown"
        /\ ident_call.validator \in {"False", "other", "raises"} =>
              ident_result # ident_call.user_id

\* a rejected user_id on a request with no forwarding header and no peer address
C25_Witness ==
    /\ ident_call # NotIdentified
    /\ ident_call.user_id = "alice"
    /\ ident_call.validator = "False"
    /\ ident_call.forwarded_for = <<>>
    /\ ident_call.real_ip = "None"
    /\ ident_call.client = "None"
    /\ ident_result = "ip:example.com"

\* ================================================================ text splitting
\* Texts are sequences of characters, positions count from 0 as in Python.
SplitInputs ==
    [text : UNION {[1..n -> {"a", " "}] : n \in 0..MaxText},
     chunk_size : 1..MaxChunk,
     chunk_overlap : 0..(MaxChunk - 1)]

\* a position given to a slice or to rfind: negative ones count from the
\* end, all are clipped to the text
PyIndex(i, n) == IF i < 0 THEN (IF i + n < 0 THEN 0 ELSE i + n) ELSE (IF i > n THEN n ELSE i)

\* max(text.rfind(' ', start, end), text.rfind('\n', start, end)): the last
\* position in [start, end) holding white space, -1 when there is none
rfind(text, start, end) ==
    LET found == {i \in PyIndex(start, Len(text))..(PyIndex(end, Len(text)) - 1) :
                     text[i + 1] = " "}
    IN  IF found = {} THEN -1 ELSE CHOOSE i \in found : \A j \in found : j <= i

\* text[start:end]
Slice(text, start, end) == SubSeq(text, PyIndex(start, Len(text)) + 1, PyIndex(end, Len(text)))

\* str.strip()
RECURSIVE Strip(_)
Strip(s) ==
    IF s = <<>> THEN s
    ELSE IF Head(s) = " " THEN Strip(Tail(s))
    ELSE IF Last(s) = " " THEN Strip(SubSeq(s, 1, Len(s) - 1))
    ELSE s

\* _split_text(text) up to the while loop: a text no longer than chunk_size
\* is returned as the only chunk
SplitEnter ==
    /\ split_pc = "called"
    /\ IF Len(split_input.text) <= split_input.chunk_size
       THEN split_pc' = "returned" /\ split_chunks' = <<split_input.text>>
       ELSE split_pc' = "loop" /\ split_chunks' = <<>>
    /\ UNCHANGED <<split_input, split_start, split_passes>>
    /\ UNCHANGED outsideSplit

\* one pass of `while start < len(text)`
SplitPass ==
    /\ split_pc = "loop"
    /\ split_passes < MaxPasses
    /\ LET text == split_input.text
           first == split_start + split_input.chunk_size
           break_point == rfind(text, split_start, first)
           end == IF first < Len(text) /\ break_point > split_start
                  THEN break_point + 1 ELSE first
           chunk == Strip(Slice(text, split_start, end))
           next == end - split_input.chunk_overlap
       IN  /\ split_chunks' = IF chunk # <<>> THEN Append(split_chunks, chunk)
                              ELSE split_chunks
           /\ split_start' = next
           /\ split_pc' = IF next >= Len(text) THEN "returned" ELSE "loop"
    /\ split_passes' = split_passes + 1
    /\ UNCHANGED split_input
    /\ UNCHANGED outsideSplit

SplitInit ==
    /\ split_input \in SplitInputs
    /\ split_input.chunk_overlap < split_input.chunk_size
    /\ split_pc = "called"
    /\ split_start = 0
    /\ split_chunks = <<>>
    /\ split_passes = 0

SplitNext ==
    \/ SplitEnter
    \/ SplitPass

\* C26: for every text, the empty and the white-space-only ones included, and
\* every configuration with 0 <= chunk_overlap < chunk_size, each chunk
\* _split_text returns is non-empty and at most chunk_size characters long.
C26_ChunksNonEmptyBounded ==
    split_pc = "returned" =>
        \A k \in 1..Len(split_chunks) :
            /\ split_chunks[k] # <<>>
            /\ Len(split_chunks[k]) <= split_input.chunk_size

\* C28: _split_text terminates for every text and every configuration with
\* 0 <= chunk_overlap < chunk_size: start grows on every pass of the loop,
\* also when the word boundary found lies fewer than chunk_overlap characters
\* after start.
C28_StartStrictlyIncreases ==
    [][split_passes' # split_passes => split_start' > split_start]_vars

\* ================================================================ token cost
\* token_pricing.json: missing, not JSON, without the provider, without the
\* model, without the model's prices, or complete
PricingFiles == {"missing", "malformed", "no_provider", "no_model", "no_prices", "priced"}

CostCalls ==
    [input_tokens : (0 - MaxCount)..MaxCount,
     output_tokens : (0 - MaxCount)..MaxCount,
     file : PricingFiles]

\* prices per 1000 tokens of the one model priced, in millionths
Prices == [input |-> 150, output |-> 600]

CostResult(outcome, effects, input_cost, output_cost) ==
    [outcome |-> outcome, effects |-> effects, input_cost |-> input_cost,
     output_cost |-> output_cost, total_cost |-> input_cost + output_cost]

\* (mutation) the pricing file is looked up before the counts are validated
ComputeFileFirst(call) ==
    IF call.file = "missing"
    THEN CostResult("FileNotFoundError", <<"exists">>, 0, 0)
    ELSE IF call.input_tokens < 0 \/ call.output_tokens < 0
    THEN CostResult("ValueError", <<"exists">>, 0, 0)
    ELSE CostResult("returned", <<"exists", "open">>,
                    call.input_tokens * Prices.input, call.output_tokens * Prices.output)

\* TokenCost.compute(provider, model, input_tokens, output_tokens); costs in
\* thousandths of the price unit
TokenCost_compute(call) ==
    IF call.input_tokens < 0 \/ call.output_tokens < 0
    THEN CostResult("ValueError", <<>>, 0, 0)
    ELSE IF call.file = "missing"
    THEN CostResult("FileNotFoundError", <<"exists">>, 0, 0)
    ELSE IF call.file = "malformed"
    THEN CostResult("JSONDecodeError", <<"exists", "open">>, 0, 0)
    ELSE IF call.file \in {"no_provider", "no_model", "no_prices"}
    THEN CostResult("KeyError", <<"exists", "open">>, 0, 0)
    ELSE CostResult("returned", <<"exists", "open">>,
                    call.input_tokens * Prices.input, call.output_tokens * Prices.output)

NotComputed == CostResult("none", <<>>, 0, 0)

compute ==
    /\ cost_result = NotComputed
    /\ \E call \in CostCalls :
         /\ cost_call' = call
         /\ cost_result' = TokenCost_compute(call)
    /\ UNCHANGED outsideCost

CostInit ==
    /\ cost_call = [input_tokens |-> 0, output_tokens |-> 0, file |-> "priced"]
    /\ cost_result = NotComputed

CostNext ==
    \/ compute

\* C27: compute with a negative input_tokens or output_tokens fails with the
\* invalid-token-count error before any pricing lookup: the pricing file is
\* neither tested for existence nor opened, whatever its state.
C27_NegativeCountRejectedFirst ==
    (cost_result # NotComputed
       /\ (cost_call.input_tokens < 0 \/ cost_call.output_tokens < 0)) =>
        /\ cost_result.outcome = "ValueError"
        /\ cost_result.effects = <<>>

\* a negative output count with the pricing file missing
C27_Witness ==
    /\ cost_result.outcome = "ValueError"
    /\ cost_call.input_tokens > 0
    /\ cost_call.output_tokens < 0
    /\ cost_call.file = "missing"

\* ================================================================ concurrent streaming
Clients == {1, 2}

\* a frame on a connection: the prompt is named by the client that sent it
OwnedFrame(type, owner, k) == [type |-> type, owner |-> owner, k |-> k]

\* the event loop can run client c's handler, or a task: no other request is
\* inside an ask / run that does not await (which keeps the one thread)
Runnable(c) == \A d \in Clients \ {c} : ~(rc_pc[d] = "asking" /\ ~rc_async)

\* ---- a prompt arrives (a message on the socket, or the POST body): the
\* route defines its handler, installs it on the shared model or agent with
\* enable_streaming, and calls ask / run
RaceRequest(c) ==
    /\ rc_pc[c] = "idle"
    /\ Runnable(c)
    /\ _stream_callback' = c
    /\ rc_pc' = [rc_pc EXCEPT ![c] = "asking"]
    /\ UNCHANGED <<rc_route, rc_async, rc_produced, rc_tasks, rc_frames>>
    /\ UNCHANGED outsideRace

\* ---- the model produces a fragment of client c's answer and passes it to
\* the handler the object holds then: ws_stream_handler creates a task that
\* sends a chunk frame on its own socket, stream_handler returns the content
RaceFragment(c) ==
    /\ rc_pc[c] = "asking"
    /\ Runnable(c)
    /\ rc_produced[c] < MaxFragments
    /\ rc_produced' = [rc_produced EXCEPT ![c] = @ + 1]
    /\ rc_tasks' = IF rc_route[_stream_callback] = "ws"
                   THEN Append(rc_tasks, [to |-> _stream_callback,
                                          frame |-> OwnedFrame("chunk", c, rc_produced[c] + 1)])
                   ELSE rc_tasks
    /\ UNCHANGED <<rc_route, rc_async, rc_pc, _stream_callback, rc_frames>>
    /\ UNCHANGED outsideRace

\* ---- the event loop runs the oldest send task
RaceChunkTask ==
    /\ rc_tasks # <<>>
    /\ Runnable(0)
    /\ rc_frames' = [rc_frames EXCEPT ![Head(rc_tasks).to] = Append(@, Head(rc_tasks).frame)]
    /\ rc_tasks' = Tail(rc_tasks)
    /\ UNCHANGED <<rc_route, rc_async, rc_pc, _stream_callback, rc_produced>>
    /\ UNCHANGED outsideRace

\* ---- ask / run returns: the socket route sends the complete frame, the POST
\* route returns the result as its response; the handler stays installed
RaceComplete(c) ==
    /\ rc_pc[c] = "asking"
    /\ Runnable(c)
    /\ rc_pc' = [rc_pc EXCEPT ![c] = "done"]
    /\ rc_frames' = [rc_frames EXCEPT ![c] =
                        Append(@, OwnedFrame(IF rc_route[c] = "ws" THEN "complete" ELSE "response",
                                             c, 0))]
    /\ UNCHANGED <<rc_route, rc_async, _stream_callback, rc_produced, rc_tasks>>
    /\ UNCHANGED outsideRace

RaceInit ==
    /\ rc_route \in {r \in [Clients -> {"ws", "post"}] : r[1] = "ws"}
    /\ rc_async \in BOOLEAN
    /\ rc_pc = [c \in Clients |-> "idle"]
    /\ _stream_callback = 0
    /\ rc_produced = [c \in Clients |-> 0]
    /\ rc_tasks = <<>>
    /\ rc_frames = [c \in Clients |-> <<>>]

RaceNext ==
    \/ \E c \in Clients : RaceRequest(c)
    \/ \E c \in Clients : RaceFragment(c)
    \/ RaceChunkTask
    \/ \E c \in Clients : RaceComplete(c)

\* ---------------------------------------------------------------- concurrent streaming claims
\* C30: with two clients' prompts in flight against the same model or agent,
\* every chunk frame is delivered only to the connection whose prompt
\* produced it, and the streaming handler in effect for a request is the one
\* installed for that request, not another request's.
C30_ChunksReachOwnConnection ==
    /\ \A c \in Clients : \A i \in 1..Len(rc_frames[c]) :
          rc_frames[c][i].type = "chunk" => rc_frames[c][i].owner = c
    /\ \A c \in Clients : rc_pc[c] = "asking" => _stream_callback = c

\* ================================================================ specifications
\* the state of a component that does not run
LoopIdle ==
    /\ paradigm = "react"
    /\ max_iter = {}
    /\ human_feedback = "none"
    /\ loop_pc = "returned"
    /\ current_iter = 0
    /\ messages = <<>>
    /\ response = InitialResponse("react")
    /\ stopped_by_user = FALSE
    /\ trace = <<>>

AppIdle ==
    /\ rate_limiter = [configured |-> FALSE, unit |-> "request",
                       value |-> LimitValue, period |-> ResetPeriod]
    /\ usage = [u \in Users |-> NoUsage]
    /\ now = 0
    /\ req = EmptyBag
    /\ last = NothingSent

ChatIdle ==
    /\ chat_init = <<>>
    /\ chat_built = Unbuilt
    /\ history = <<>>
    /\ asked = 0
    /\ chat_calls = [n \in Asks |-> NoCall]

MultiIdle ==
    /\ mm_variant = "coicoi"
    /\ mm_models = <<>>
    /\ mm_pc = "idle"
    /\ mm_tasks = <<>>
    /\ mm_order = <<>>
    /\ mm_result = <<>>

McpIdle ==
    /\ mcp_server = [server_type |-> "python", server_url |-> ""]
    /\ mcp_session = 0
    /\ mcp_ctx = 0
    /\ mcp_reader = 0
    /\ mcp_writer = 0
    /\ transports = <<>>
    /\ sessions = <<>>
    /\ mcp_outcomes = <<>>
    /\ mcp_last = NoOperation
    /\ mcp_scope = NoScope

WsIdle ==
    /\ ws_route = [route |-> "model_ws", known |-> TRUE]
    /\ ws_async = FALSE
    /\ ws_pc = "closed"
    /\ ws_prompt = 0
    /\ ws_produced = 0
    /\ ws_tasks = <<>>
    /\ ws_frames = <<>>

KeysIdle ==
    /\ environ = [n \in EnvNames |-> "unset"]
    /\ _keys = NotLoaded
    /\ providers_keys = [exists |-> FALSE, lines |-> <<>>]
    /\ file_reads = 0
    /\ colab = FALSE
    /\ key_calls = 0
    /\ key_last = KeyCall("openai", "none", FALSE)

ConfigIdle ==
    /\ _DEFAULT_CONFIG = DefaultConfig
    /\ _config = ShallowCopy(DefaultConfig)
    /\ coiconf = NoConfigFile
    /\ config_loads = 0

ExecIdle ==
    /\ ex_prompt = [kind |-> "str", size |-> 1, has_memory |-> FALSE]
    /\ ex_call = "none"
    /\ ex_replies = [i \in 1..MaxSteps |-> <<"A">>]
    /\ ex_runs = <<>>
    /\ ex_result = NotAsked

IdentIdle ==
    /\ ident_call = NotIdentified
    /\ ident_result = "none"

SplitIdle ==
    /\ split_input = [text |-> <<>>, chunk_size |-> 1, chunk_overlap |-> 0]
    /\ split_pc = "returned"
    /\ split_start = 0
    /\ split_chunks = <<>>
    /\ split_passes = 0

CostIdle ==
    /\ cost_call = [input_tokens |-> 0, output_tokens |-> 0, file |-> "priced"]
    /\ cost_result = NotComputed

RaceIdle ==
    /\ rc_route = [c \in Clients |-> "ws"]
    /\ rc_async = FALSE
    /\ rc_pc = [c \in Clients |-> "idle"]
    /\ _stream_callback = 0
    /\ rc_produced = [c \in Clients |-> 0]
    /\ rc_tasks = <<>>
    /\ rc_frames = [c \in Clients |-> <<>>]

LoopStart == LoopInit /\ AppIdle /\ ChatIdle /\ MultiIdle /\ McpIdle /\ WsIdle /\ KeysIdle /\ ConfigIdle /\ ExecIdle /\ IdentIdle /\ SplitIdle /\ CostIdle /\ RaceIdle
SpecLoop == LoopStart /\ [][LoopNext]_vars

AppStart == AppInit /\ LoopIdle /\ ChatIdle /\ MultiIdle /\ McpIdle /\ WsIdle /\ KeysIdle /\ ConfigIdle /\ ExecIdle /\ IdentIdle /\ SplitIdle /\ CostIdle /\ RaceIdle
SpecApp == AppStart /\ [][AppNext]_vars

ChatStart == ChatInit /\ LoopIdle /\ AppIdle /\ MultiIdle /\ McpIdle /\ WsIdle /\ KeysIdle /\ ConfigIdle /\ ExecIdle /\ IdentIdle /\ SplitIdle /\ CostIdle /\ RaceIdle
SpecChat == ChatStart /\ [][ChatNext]_vars

MultiStart == MultiInit /\ LoopIdle /\ AppIdle /\ ChatIdle /\ McpIdle /\ WsIdle /\ KeysIdle /\ ConfigIdle /\ ExecIdle /\ IdentIdle /\ SplitIdle /\ CostIdle /\ RaceIdle
SpecMulti == MultiStart /\ [][MultiNext]_vars

McpStart == McpInit /\ LoopIdle /\ AppIdle /\ ChatIdle /\ MultiIdle /\ WsIdle /\ KeysIdle /\ ConfigIdle /\ ExecIdle /\ IdentIdle /\ SplitIdle /\ CostIdle /\ RaceIdle
SpecMcp == McpStart /\ [][McpNext]_vars

WsStart == WsInit /\ LoopIdle /\ AppIdle /\ ChatIdle /\ MultiIdle /\ McpIdle /\ KeysIdle /\ ConfigIdle /\ ExecIdle /\ IdentIdle /\ SplitIdle /\ CostIdle /\ RaceIdle
SpecWs == WsStart /\ [][WsNext]_vars

KeysStart == KeysInit /\ LoopIdle /\ AppIdle /\ ChatIdle /\ MultiIdle /\ McpIdle /\ WsIdle /\ ConfigIdle /\ ExecIdle /\ IdentIdle /\ SplitIdle /\ CostIdle /\ RaceIdle
SpecKeys == KeysStart /\ [][KeysNext]_vars

ConfigStart == ConfigInit /\ LoopIdle /\ AppIdle /\ ChatIdle /\ MultiIdle /\ McpIdle /\ WsIdle /\ KeysIdle /\ ExecIdle /\ IdentIdle /\ SplitIdle /\ CostIdle /\ RaceIdle
SpecConfig == ConfigStart /\ [][ConfigNext]_vars

ExecStart == ExecInit /\ LoopIdle /\ AppIdle /\ ChatIdle /\ MultiIdle /\ McpIdle /\ WsIdle /\ KeysIdle /\ ConfigIdle /\ IdentIdle /\ SplitIdle /\ CostIdle /\ RaceIdle
SpecExec == ExecStart /\ [][ExecNext]_vars

IdentStart == IdentInit /\ LoopIdle /\ AppIdle /\ ChatIdle /\ MultiIdle /\ McpIdle /\ WsIdle /\ KeysIdle /\ ConfigIdle /\ ExecIdle /\ SplitIdle /\ CostIdle /\ RaceIdle
SpecIdent == IdentStart /\ [][IdentNext]_vars

SplitStart == SplitInit /\ LoopIdle /\ AppIdle /\ ChatIdle /\ MultiIdle /\ McpIdle /\ WsIdle /\ KeysIdle /\ ConfigIdle /\ ExecIdle /\ IdentIdle /\ CostIdle /\ RaceIdle
SpecSplit == SplitStart /\ [][SplitNext]_vars

CostStart == CostInit /\ LoopIdle /\ AppIdle /\ ChatIdle /\ MultiIdle /\ McpIdle /\ WsIdle /\ KeysIdle /\ ConfigIdle /\ ExecIdle /\ IdentIdle /\ SplitIdle /\ RaceIdle
SpecCost == CostStart /\ [][CostNext]_vars

RaceStart == RaceInit /\ LoopIdle /\ AppIdle /\ ChatIdle /\ MultiIdle /\ McpIdle /\ WsIdle /\ KeysIdle /\ ConfigIdle /\ ExecIdle /\ IdentIdle /\ SplitIdle /\ CostIdle
SpecRace == RaceStart /\ [][RaceNext]_vars
====
